---- MODULE Spec2Model ----
(***************************************************************************)
(* Model of the Wayland event translation layer of iced_sctk:             *)
(* SctkEvent::to_native (sctk/src/sctk_event.rs) together with the two    *)
(* surface-id registries and the modifier state it is called with.        *)
(***************************************************************************)
EXTENDS Integers, Sequences, FiniteSets, TLC

(* ---------------------------- bounds ---------------------------------- *)
\* number of surface ids (window::Id) the process hands out
MaxId == 2
\* largest modifier mask (bit 0 shift, bit 1 ctrl, bit 2 alt, bit 3 logo)
MaxMask == 1
\* largest raw hardware code handed to physical_key, besides 9999
MaxRawCode == 255
\* number of times one register call is repeated
MaxRepeat == 2
\* largest cursor coordinate
MaxCoord == 2

(* ---------------------------- values ---------------------------------- *)
\* platform surface handles (WlSurface object ids); the compositor reuses an
\* object id once its surface is gone
Handles == {"wl_surface@1", "wl_surface@2"}
Ids == 1..MaxId
Masks == 0..MaxMask
Seats == {"seat0", "seat1"}

\* Option<T>: None is the empty sequence, Some(v) the one-element sequence
None == <<>>
Some(v) == <<v>>
IsSome(o) == Len(o) = 1
Unwrap(o) == o[1]

\* application::SurfaceIdWrapper
SurfaceKinds == {"Window", "Popup", "LayerSurface", "SessionLock", "Dnd"}
SurfaceIdWrapper == [kind : SurfaceKinds, id : Ids]
inner(w) == w.id

\* HashMap<ObjectId, SurfaceIdWrapper>::get
get(map, h) == IF h \in DOMAIN map THEN Some(map[h]) ELSE None

\* HashMap::insert / HashMap::remove
insert(map, h, v) == [k \in (DOMAIN map) \cup {h} |-> IF k = h THEN v ELSE map[k]]
remove(map, h) == [k \in (DOMAIN map) \ {h} |-> map[k]]
EmptyMap == [k \in {} |-> [kind |-> "Window", id |-> 1]]

(* ------------------------ conversions --------------------------------- *)
\* conversion::modifiers_to_native: the platform mask as the set of the
\* portable modifier flags it has set
ModifierBit(n, mask) == (mask \div (2 ^ n)) % 2 = 1
modifiers_to_native(mask) ==
  {f \in {"SHIFT", "CTRL", "ALT", "LOGO"} :
      \/ f = "SHIFT" /\ ModifierBit(0, mask)
      \/ f = "CTRL" /\ ModifierBit(1, mask)
      \/ f = "ALT" /\ ModifierBit(2, mask)
      \/ f = "LOGO" /\ ModifierBit(3, mask)}

\* conversion::pointer_button_to_native: the button translation table
pointer_button_to_native(button) ==
  CASE button = 272 -> Some("Left")
    [] button = 273 -> Some("Right")
    [] button = 274 -> Some("Middle")
    [] OTHER -> None

\* conversion::pointer_axis_to_native: wheel clicks become line deltas,
\* finger and continuous sources pixel deltas, other sources nothing
pointer_axis_to_native(source, horizontal, vertical) ==
  CASE source = Some("Wheel") ->
         Some([unit |-> "Lines", x |-> -horizontal.discrete, y |-> -vertical.discrete])
    [] source \in {Some("Finger"), Some("Continuous")} ->
         Some([unit |-> "Pixels", x |-> -horizontal.absolute, y |-> -vertical.absolute])
    [] OTHER -> None

\* `as f32` of a non-negative whole f64 below 2^25: exact up to 2^24, then
\* rounded to the nearest even multiple of the f32 spacing (2)
as_f32(x) ==
  IF x <= 2 ^ 24 \/ x % 2 = 0 THEN x
  ELSE IF (x \div 2) % 2 = 0 THEN 2 * (x \div 2) ELSE 2 * ((x \div 2) + 1)

\* keymap::keysym_to_key: named keys by keysym, Unidentified otherwise
Unidentified == [kind |-> "Unidentified"]
Named(n) == [kind |-> "Named", name |-> n]
Character(s) == [kind |-> "Character", text |-> s]
keysym_to_key(keysym) ==
  CASE keysym = 65307 -> Named("Escape")
    [] keysym = 65293 -> Named("Enter")
    [] keysym = 65421 -> Named("Enter")
    [] keysym = 65505 -> Named("Shift")
    [] keysym = 65506 -> Named("Shift")
    [] OTHER -> Unidentified

\* keymap::keysym_location: left/right/numpad duals, Standard otherwise
keysym_location(keysym) ==
  CASE keysym = 65505 -> "Left"
    [] keysym = 65506 -> "Right"
    [] keysym = 65421 -> "Numpad"
    [] OTHER -> "Standard"

\* mutant: the text overrides the table result whenever it is present
M_keysym_to_vkey_location_TextOverrides(keysym, utf8) ==
  LET key == keysym_to_key(keysym)
      key2 == IF IsSome(utf8) THEN Character(Unwrap(utf8)) ELSE key
  IN  [key |-> key2, location |-> keysym_location(keysym)]

\* keysym_to_vkey_location
keysym_to_vkey_location(keysym, utf8) ==
  LET key == keysym_to_key(keysym)
      key2 == IF key = Unidentified /\ IsSome(utf8)
              THEN Character(Unwrap(utf8)) ELSE key
  IN  [key |-> key2, location |-> keysym_location(keysym)]

\* mutant: the entry for code 95, commented out in the table, is enabled
M_physical_key_Code95Enabled(rawcode) ==
  CASE rawcode = 1 -> "Escape"
    [] rawcode = 2 -> "Digit1"
    [] rawcode = 3 -> "Digit2"
    [] rawcode = 4 -> "Digit3"
    [] rawcode = 5 -> "Digit4"
    [] rawcode = 6 -> "Digit5"
    [] rawcode = 7 -> "Digit6"
    [] rawcode = 8 -> "Digit7"
    [] rawcode = 9 -> "Digit8"
    [] rawcode = 10 -> "Digit9"
    [] rawcode = 11 -> "Digit0"
    [] rawcode = 12 -> "Minus"
    [] rawcode = 13 -> "Equal"
    [] rawcode = 14 -> "Backspace"
    [] rawcode = 15 -> "Tab"
    [] rawcode = 16 -> "KeyQ"
    [] rawcode = 17 -> "KeyW"
    [] rawcode = 18 -> "KeyE"
    [] rawcode = 19 -> "KeyR"
    [] rawcode = 20 -> "KeyT"
    [] rawcode = 21 -> "KeyY"
    [] rawcode = 22 -> "KeyU"
    [] rawcode = 23 -> "KeyI"
    [] rawcode = 24 -> "KeyO"
    [] rawcode = 25 -> "KeyP"
    [] rawcode = 26 -> "BracketLeft"
    [] rawcode = 27 -> "BracketRight"
    [] rawcode = 28 -> "Enter"
    [] rawcode = 29 -> "ControlLeft"
    [] rawcode = 30 -> "KeyA"
    [] rawcode = 31 -> "KeyS"
    [] rawcode = 32 -> "KeyD"
    [] rawcode = 33 -> "KeyF"
    [] rawcode = 34 -> "KeyG"
    [] rawcode = 35 -> "KeyH"
    [] rawcode = 36 -> "KeyJ"
    [] rawcode = 37 -> "KeyK"
    [] rawcode = 38 -> "KeyL"
    [] rawcode = 39 -> "Semicolon"
    [] rawcode = 40 -> "Quote"
    [] rawcode = 41 -> "Backquote"
    [] rawcode = 42 -> "ShiftLeft"
    [] rawcode = 43 -> "Backslash"
    [] rawcode = 44 -> "KeyZ"
    [] rawcode = 45 -> "KeyX"
    [] rawcode = 46 -> "KeyC"
    [] rawcode = 47 -> "KeyV"
    [] rawcode = 48 -> "KeyB"
    [] rawcode = 49 -> "KeyN"
    [] rawcode = 50 -> "KeyM"
    [] rawcode = 51 -> "Comma"
    [] rawcode = 52 -> "Period"
    [] rawcode = 53 -> "Slash"
    [] rawcode = 54 -> "ShiftRight"
    [] rawcode = 55 -> "NumpadMultiply"
    [] rawcode = 56 -> "AltLeft"
    [] rawcode = 57 -> "Space"
    [] rawcode = 58 -> "CapsLock"
    [] rawcode = 59 -> "F1"
    [] rawcode = 60 -> "F2"
    [] rawcode = 61 -> "F3"
    [] rawcode = 62 -> "F4"
    [] rawcode = 63 -> "F5"
    [] rawcode = 64 -> "F6"
    [] rawcode = 65 -> "F7"
    [] rawcode = 66 -> "F8"
    [] rawcode = 67 -> "F9"
    [] rawcode = 68 -> "F10"
    [] rawcode = 69 -> "NumLock"
    [] rawcode = 70 -> "ScrollLock"
    [] rawcode = 71 -> "Numpad7"
    [] rawcode = 72 -> "Numpad8"
    [] rawcode = 73 -> "Numpad9"
    [] rawcode = 74 -> "NumpadSubtract"
    [] rawcode = 75 -> "Numpad4"
    [] rawcode = 76 -> "Numpad5"
    [] rawcode = 77 -> "Numpad6"
    [] rawcode = 78 -> "NumpadAdd"
    [] rawcode = 79 -> "Numpad1"
    [] rawcode = 80 -> "Numpad2"
    [] rawcode = 81 -> "Numpad3"
    [] rawcode = 82 -> "Numpad0"
    [] rawcode = 83 -> "NumpadDecimal"
    [] rawcode = 85 -> "Lang5"
    [] rawcode = 86 -> "IntlBackslash"
    [] rawcode = 87 -> "F11"
    [] rawcode = 88 -> "F12"
    [] rawcode = 89 -> "IntlRo"
    [] rawcode = 90 -> "Katakana"
    [] rawcode = 91 -> "Hiragana"
    [] rawcode = 92 -> "Convert"
    [] rawcode = 93 -> "KanaMode"
    [] rawcode = 94 -> "NonConvert"
    [] rawcode = 95 -> "NumpadComma"
    [] rawcode = 96 -> "NumpadEnter"
    [] rawcode = 97 -> "ControlRight"
    [] rawcode = 98 -> "NumpadDivide"
    [] rawcode = 99 -> "PrintScreen"
    [] rawcode = 100 -> "AltRight"
    [] rawcode = 102 -> "Home"
    [] rawcode = 103 -> "ArrowUp"
    [] rawcode = 104 -> "PageUp"
    [] rawcode = 105 -> "ArrowLeft"
    [] rawcode = 106 -> "ArrowRight"
    [] rawcode = 107 -> "End"
    [] rawcode = 108 -> "ArrowDown"
    [] rawcode = 109 -> "PageDown"
    [] rawcode = 110 -> "Insert"
    [] rawcode = 111 -> "Delete"
    [] rawcode = 113 -> "AudioVolumeMute"
    [] rawcode = 114 -> "AudioVolumeDown"
    [] rawcode = 115 -> "AudioVolumeUp"
    [] rawcode = 116 -> "Power"
    [] rawcode = 117 -> "NumpadEqual"
    [] rawcode = 119 -> "Pause"
    [] rawcode = 121 -> "NumpadComma"
    [] rawcode = 122 -> "Lang1"
    [] rawcode = 123 -> "Lang2"
    [] rawcode = 124 -> "IntlYen"
    [] rawcode = 125 -> "SuperLeft"
    [] rawcode = 126 -> "SuperRight"
    [] rawcode = 127 -> "ContextMenu"
    [] rawcode = 128 -> "BrowserStop"
    [] rawcode = 129 -> "Again"
    [] rawcode = 130 -> "Props"
    [] rawcode = 131 -> "Undo"
    [] rawcode = 133 -> "Copy"
    [] rawcode = 134 -> "Open"
    [] rawcode = 135 -> "Paste"
    [] rawcode = 136 -> "Find"
    [] rawcode = 137 -> "Cut"
    [] rawcode = 138 -> "Help"
    [] rawcode = 140 -> "LaunchApp2"
    [] rawcode = 142 -> "Sleep"
    [] rawcode = 143 -> "WakeUp"
    [] rawcode = 155 -> "LaunchMail"
    [] rawcode = 156 -> "BrowserFavorites"
    [] rawcode = 157 -> "LaunchApp1"
    [] rawcode = 158 -> "BrowserBack"
    [] rawcode = 159 -> "BrowserForward"
    [] rawcode = 162 -> "Eject"
    [] rawcode = 163 -> "MediaTrackNext"
    [] rawcode = 164 -> "MediaPlayPause"
    [] rawcode = 165 -> "MediaTrackPrevious"
    [] rawcode = 166 -> "MediaStop"
    [] rawcode = 172 -> "BrowserHome"
    [] rawcode = 173 -> "BrowserRefresh"
    [] rawcode = 179 -> "NumpadParenLeft"
    [] rawcode = 180 -> "NumpadParenRight"
    [] rawcode = 183 -> "F13"
    [] rawcode = 184 -> "F14"
    [] rawcode = 185 -> "F15"
    [] rawcode = 186 -> "F16"
    [] rawcode = 187 -> "F17"
    [] rawcode = 188 -> "F18"
    [] rawcode = 189 -> "F19"
    [] rawcode = 190 -> "F20"
    [] rawcode = 191 -> "F21"
    [] rawcode = 192 -> "F22"
    [] rawcode = 193 -> "F23"
    [] rawcode = 194 -> "F24"
    [] rawcode = 205 -> "Suspend"
    [] rawcode = 217 -> "BrowserSearch"
    [] rawcode = 226 -> "MediaSelect"
    [] OTHER -> "Unidentified"

physical_key(rawcode) ==
  CASE rawcode = 1 -> "Escape"
    [] rawcode = 2 -> "Digit1"
    [] rawcode = 3 -> "Digit2"
    [] rawcode = 4 -> "Digit3"
    [] rawcode = 5 -> "Digit4"
    [] rawcode = 6 -> "Digit5"
    [] rawcode = 7 -> "Digit6"
    [] rawcode = 8 -> "Digit7"
    [] rawcode = 9 -> "Digit8"
    [] rawcode = 10 -> "Digit9"
    [] rawcode = 11 -> "Digit0"
    [] rawcode = 12 -> "Minus"
    [] rawcode = 13 -> "Equal"
    [] rawcode = 14 -> "Backspace"
    [] rawcode = 15 -> "Tab"
    [] rawcode = 16 -> "KeyQ"
    [] rawcode = 17 -> "KeyW"
    [] rawcode = 18 -> "KeyE"
    [] rawcode = 19 -> "KeyR"
    [] rawcode = 20 -> "KeyT"
    [] rawcode = 21 -> "KeyY"
    [] rawcode = 22 -> "KeyU"
    [] rawcode = 23 -> "KeyI"
    [] rawcode = 24 -> "KeyO"
    [] rawcode = 25 -> "KeyP"
    [] rawcode = 26 -> "BracketLeft"
    [] rawcode = 27 -> "BracketRight"
    [] rawcode = 28 -> "Enter"
    [] rawcode = 29 -> "ControlLeft"
    [] rawcode = 30 -> "KeyA"
    [] rawcode = 31 -> "KeyS"
    [] rawcode = 32 -> "KeyD"
    [] rawcode = 33 -> "KeyF"
    [] rawcode = 34 -> "KeyG"
    [] rawcode = 35 -> "KeyH"
    [] rawcode = 36 -> "KeyJ"
    [] rawcode = 37 -> "KeyK"
    [] rawcode = 38 -> "KeyL"
    [] rawcode = 39 -> "Semicolon"
    [] rawcode = 40 -> "Quote"
    [] rawcode = 41 -> "Backquote"
    [] rawcode = 42 -> "ShiftLeft"
    [] rawcode = 43 -> "Backslash"
    [] rawcode = 44 -> "KeyZ"
    [] rawcode = 45 -> "KeyX"
    [] rawcode = 46 -> "KeyC"
    [] rawcode = 47 -> "KeyV"
    [] rawcode = 48 -> "KeyB"
    [] rawcode = 49 -> "KeyN"
    [] rawcode = 50 -> "KeyM"
    [] rawcode = 51 -> "Comma"
    [] rawcode = 52 -> "Period"
    [] rawcode = 53 -> "Slash"
    [] rawcode = 54 -> "ShiftRight"
    [] rawcode = 55 -> "NumpadMultiply"
    [] rawcode = 56 -> "AltLeft"
    [] rawcode = 57 -> "Space"
    [] rawcode = 58 -> "CapsLock"
    [] rawcode = 59 -> "F1"
    [] rawcode = 60 -> "F2"
    [] rawcode = 61 -> "F3"
    [] rawcode = 62 -> "F4"
    [] rawcode = 63 -> "F5"
    [] rawcode = 64 -> "F6"
    [] rawcode = 65 -> "F7"
    [] rawcode = 66 -> "F8"
    [] rawcode = 67 -> "F9"
    [] rawcode = 68 -> "F10"
    [] rawcode = 69 -> "NumLock"
    [] rawcode = 70 -> "ScrollLock"
    [] rawcode = 71 -> "Numpad7"
    [] rawcode = 72 -> "Numpad8"
    [] rawcode = 73 -> "Numpad9"
    [] rawcode = 74 -> "NumpadSubtract"
    [] rawcode = 75 -> "Numpad4"
    [] rawcode = 76 -> "Numpad5"
    [] rawcode = 77 -> "Numpad6"
    [] rawcode = 78 -> "NumpadAdd"
    [] rawcode = 79 -> "Numpad1"
    [] rawcode = 80 -> "Numpad2"
    [] rawcode = 81 -> "Numpad3"
    [] rawcode = 82 -> "Numpad0"
    [] rawcode = 83 -> "NumpadDecimal"
    [] rawcode = 85 -> "Lang5"
    [] rawcode = 86 -> "IntlBackslash"
    [] rawcode = 87 -> "F11"
    [] rawcode = 88 -> "F12"
    [] rawcode = 89 -> "IntlRo"
    [] rawcode = 90 -> "Katakana"
    [] rawcode = 91 -> "Hiragana"
    [] rawcode = 92 -> "Convert"
    [] rawcode = 93 -> "KanaMode"
    [] rawcode = 94 -> "NonConvert"
    [] rawcode = 96 -> "NumpadEnter"
    [] rawcode = 97 -> "ControlRight"
    [] rawcode = 98 -> "NumpadDivide"
    [] rawcode = 99 -> "PrintScreen"
    [] rawcode = 100 -> "AltRight"
    [] rawcode = 102 -> "Home"
    [] rawcode = 103 -> "ArrowUp"
    [] rawcode = 104 -> "PageUp"
    [] rawcode = 105 -> "ArrowLeft"
    [] rawcode = 106 -> "ArrowRight"
    [] rawcode = 107 -> "End"
    [] rawcode = 108 -> "ArrowDown"
    [] rawcode = 109 -> "PageDown"
    [] rawcode = 110 -> "Insert"
    [] rawcode = 111 -> "Delete"
    [] rawcode = 113 -> "AudioVolumeMute"
    [] rawcode = 114 -> "AudioVolumeDown"
    [] rawcode = 115 -> "AudioVolumeUp"
    [] rawcode = 116 -> "Power"
    [] rawcode = 117 -> "NumpadEqual"
    [] rawcode = 119 -> "Pause"
    [] rawcode = 121 -> "NumpadComma"
    [] rawcode = 122 -> "Lang1"
    [] rawcode = 123 -> "Lang2"
    [] rawcode = 124 -> "IntlYen"
    [] rawcode = 125 -> "SuperLeft"
    [] rawcode = 126 -> "SuperRight"
    [] rawcode = 127 -> "ContextMenu"
    [] rawcode = 128 -> "BrowserStop"
    [] rawcode = 129 -> "Again"
    [] rawcode = 130 -> "Props"
    [] rawcode = 131 -> "Undo"
    [] rawcode = 133 -> "Copy"
    [] rawcode = 134 -> "Open"
    [] rawcode = 135 -> "Paste"
    [] rawcode = 136 -> "Find"
    [] rawcode = 137 -> "Cut"
    [] rawcode = 138 -> "Help"
    [] rawcode = 140 -> "LaunchApp2"
    [] rawcode = 142 -> "Sleep"
    [] rawcode = 143 -> "WakeUp"
    [] rawcode = 155 -> "LaunchMail"
    [] rawcode = 156 -> "BrowserFavorites"
    [] rawcode = 157 -> "LaunchApp1"
    [] rawcode = 158 -> "BrowserBack"
    [] rawcode = 159 -> "BrowserForward"
    [] rawcode = 162 -> "Eject"
    [] rawcode = 163 -> "MediaTrackNext"
    [] rawcode = 164 -> "MediaPlayPause"
    [] rawcode = 165 -> "MediaTrackPrevious"
    [] rawcode = 166 -> "MediaStop"
    [] rawcode = 172 -> "BrowserHome"
    [] rawcode = 173 -> "BrowserRefresh"
    [] rawcode = 179 -> "NumpadParenLeft"
    [] rawcode = 180 -> "NumpadParenRight"
    [] rawcode = 183 -> "F13"
    [] rawcode = 184 -> "F14"
    [] rawcode = 185 -> "F15"
    [] rawcode = 186 -> "F16"
    [] rawcode = 187 -> "F17"
    [] rawcode = 188 -> "F18"
    [] rawcode = 189 -> "F19"
    [] rawcode = 190 -> "F20"
    [] rawcode = 191 -> "F21"
    [] rawcode = 192 -> "F22"
    [] rawcode = 193 -> "F23"
    [] rawcode = 194 -> "F24"
    [] rawcode = 205 -> "Suspend"
    [] rawcode = 217 -> "BrowserSearch"
    [] rawcode = 226 -> "MediaSelect"
    [] OTHER -> "Unidentified"

(* ------------------- normalized (iced) events ------------------------- *)
Mouse(e) == [tag |-> "Mouse", event |-> e]
MouseButton(e, b) == [tag |-> "Mouse", event |-> e, button |-> b]
CursorMoved(x, y) == [tag |-> "Mouse", event |-> "CursorMoved", x |-> x, y |-> y]
WheelScrolled(d) == [tag |-> "Mouse", event |-> "WheelScrolled", delta |-> d]
Window(id, e) == [tag |-> "Window", id |-> id, event |-> e]
Resized(id, w, h) ==
  [tag |-> "Window", id |-> id, event |-> "Resized", width |-> w, height |-> h]
WaylandWindow(e, payload, surface, id) ==
  [tag |-> "Wayland.Window", event |-> e, payload |-> payload,
   surface |-> surface, id |-> id]
Layer(e, surface, id) ==
  [tag |-> "Wayland.Layer", event |-> e, surface |-> surface, id |-> id]
Popup(e, surface, id) ==
  [tag |-> "Wayland.Popup", event |-> e, surface |-> surface, id |-> id]
SessionLockSurface(e, surface, id) ==
  [tag |-> "Wayland.SessionLock", event |-> e, surface |-> surface, id |-> id]
SessionLock(e) == [tag |-> "Wayland.SessionLock", event |-> e]
Seat(e, seat_id) == [tag |-> "Wayland.Seat", event |-> e, seat |-> seat_id]
OutputCreated(info, id) ==
  [tag |-> "Wayland.Output", event |-> "Created", info_opt |-> info, id |-> id]
OutputInfoUpdate(info, id) ==
  [tag |-> "Wayland.Output", event |-> "InfoUpdate", info |-> info, id |-> id]
OutputRemoved(id) == [tag |-> "Wayland.Output", event |-> "Removed", id |-> id]
DndOffer(e, payload) == [tag |-> "Wayland.DndOffer", event |-> e, payload |-> payload]
DndOfferUnit(e) == [tag |-> "Wayland.DndOffer", event |-> e]
DataSource(e, payload) ==
  [tag |-> "Wayland.DataSource", event |-> e, payload |-> payload]
DataSourceUnit(e) == [tag |-> "Wayland.DataSource", event |-> e]
KeyPressed(key, location, pk, text, mods) ==
  [tag |-> "Keyboard", event |-> "KeyPressed", key |-> key, location |-> location,
   physical_key |-> pk, text |-> text, modifiers |-> mods]
KeyReleased(key, location, pk, mods) ==
  [tag |-> "Keyboard", event |-> "KeyReleased", key |-> key, location |-> location,
   physical_key |-> pk, modifiers |-> mods]
ModifiersChanged(mods) ==
  [tag |-> "Keyboard", event |-> "ModifiersChanged", modifiers |-> mods]

\* Option<Event>::into_iter().collect() and Option::map
collect(o) == o

\* result of one to_native call: the returned Vec, the modifier state the
\* call leaves behind, and whether the call panicked instead of returning
Ret(events, mods) == [out |-> events, modifiers |-> mods, panic |-> FALSE]
Panic(mods) == [out |-> <<>>, modifiers |-> mods, panic |-> TRUE]

(* ------------------- to_native, arm by arm ---------------------------- *)
\* mutant: a seat event resets the modifier state
M_SeatEventArm_ResetsModifiers(self, mods) == Ret(<<>>, 0)

\* SctkEvent::SeatEvent
SeatEventArm(self, mods) == Ret(<<>>, mods)

\* mutant: the translated button is unwrapped instead of mapped
M_PointerEventArm_UnwrapsButton(self, mods) ==
  LET kind == self.variant.kind
      position == self.variant.position
  IN  CASE kind.name = "Enter" -> Ret(<<Mouse("CursorEntered")>>, mods)
        [] kind.name = "Leave" -> Ret(<<Mouse("CursorLeft")>>, mods)
        [] kind.name = "Motion" ->
             Ret(<<CursorMoved(as_f32(position[1]), as_f32(position[2]))>>, mods)
        [] kind.name = "Press" ->
             LET b == pointer_button_to_native(kind.button)
             IN  IF IsSome(b) THEN Ret(<<MouseButton("ButtonPressed", Unwrap(b))>>, mods)
                 ELSE Panic(mods)
        [] kind.name = "Release" ->
             LET b == pointer_button_to_native(kind.button)
             IN  IF IsSome(b) THEN Ret(<<MouseButton("ButtonReleased", Unwrap(b))>>, mods)
                 ELSE Panic(mods)
        [] kind.name = "Axis" ->
             LET a == pointer_axis_to_native(kind.source, kind.horizontal, kind.vertical)
             IN  Ret(IF IsSome(a) THEN <<WheelScrolled(Unwrap(a))>> ELSE <<>>, mods)

\* SctkEvent::PointerEvent
PointerEventArm(self, mods) ==
  LET kind == self.variant.kind
      position == self.variant.position
  IN  CASE kind.name = "Enter" -> Ret(<<Mouse("CursorEntered")>>, mods)
        [] kind.name = "Leave" -> Ret(<<Mouse("CursorLeft")>>, mods)
        [] kind.name = "Motion" ->
             Ret(<<CursorMoved(as_f32(position[1]), as_f32(position[2]))>>, mods)
        [] kind.name = "Press" ->
             LET b == pointer_button_to_native(kind.button)
             IN  Ret(IF IsSome(b) THEN <<MouseButton("ButtonPressed", Unwrap(b))>>
                     ELSE <<>>, mods)
        [] kind.name = "Release" ->
             LET b == pointer_button_to_native(kind.button)
             IN  Ret(IF IsSome(b) THEN <<MouseButton("ButtonReleased", Unwrap(b))>>
                     ELSE <<>>, mods)
        [] kind.name = "Axis" ->
             LET a == pointer_axis_to_native(kind.source, kind.horizontal, kind.vertical)
             IN  Ret(IF IsSome(a) THEN <<WheelScrolled(Unwrap(a))>> ELSE <<>>, mods)

\* mutant: the Popup arm builds the Layer event of the arm above it
M_LeaveFocusEvent_PopupAsLayer(surface, id) ==
  CASE id.kind = "LayerSurface" -> Some(Layer("Unfocused", surface, inner(id)))
    [] id.kind = "Window" -> Some(Window(id.id, "Unfocused"))
    [] id.kind = "Popup" -> Some(Layer("Unfocused", surface, inner(id)))
    [] id.kind = "Dnd" -> None
    [] id.kind = "SessionLock" ->
         Some(SessionLockSurface("Unfocused", surface, inner(id)))

\* KeyboardEventVariant::Leave: the and_then closure over the live identity
LeaveFocusEvent(surface, id) ==
  CASE id.kind = "LayerSurface" -> Some(Layer("Unfocused", surface, inner(id)))
    [] id.kind = "Window" -> Some(Window(id.id, "Unfocused"))
    [] id.kind = "Popup" -> Some(Popup("Unfocused", surface, inner(id)))
    [] id.kind = "Dnd" -> None
    [] id.kind = "SessionLock" ->
         Some(SessionLockSurface("Unfocused", surface, inner(id)))

\* mutant: the seat event is chained only behind a resolved focus event
M_KeyboardLeave_SeatOnlyWhenFound(surface, seat_id, surface_ids) ==
  LET found == get(surface_ids, surface)
  IN  IF IsSome(found)
      THEN collect(LeaveFocusEvent(surface, Unwrap(found))) \o <<Seat("Leave", seat_id)>>
      ELSE <<>>

\* KeyboardEventVariant::Leave
KeyboardLeave(surface, seat_id, surface_ids) ==
  LET found == get(surface_ids, surface)
      first == IF IsSome(found) THEN LeaveFocusEvent(surface, Unwrap(found)) ELSE None
  IN  collect(first) \o <<Seat("Leave", seat_id)>>

\* mutant: the Popup arm of the closure is missing
M_EnterFocusEvent_NoPopup(surface, id) ==
  CASE id.kind = "LayerSurface" -> Some(Layer("Focused", surface, inner(id)))
    [] id.kind = "Window" -> Some(Window(id.id, "Focused"))
    [] id.kind = "SessionLock" ->
         Some(SessionLockSurface("Focused", surface, inner(id)))
    [] OTHER -> None

\* KeyboardEventVariant::Enter: the and_then closure over the live identity
EnterFocusEvent(surface, id) ==
  CASE id.kind = "LayerSurface" -> Some(Layer("Focused", surface, inner(id)))
    [] id.kind = "Window" -> Some(Window(id.id, "Focused"))
    [] id.kind = "Popup" -> Some(Popup("Focused", surface, inner(id)))
    [] id.kind = "Dnd" -> None
    [] id.kind = "SessionLock" ->
         Some(SessionLockSurface("Focused", surface, inner(id)))

\* mutant: the seat event is emitted ahead of the focus event
M_KeyboardEnter_SeatFirst(surface, seat_id, surface_ids) ==
  LET found == get(surface_ids, surface)
      first == IF IsSome(found) THEN EnterFocusEvent(surface, Unwrap(found)) ELSE None
  IN  <<Seat("Enter", seat_id)>> \o collect(first)

\* KeyboardEventVariant::Enter
KeyboardEnter(surface, seat_id, surface_ids) ==
  LET found == get(surface_ids, surface)
      first == IF IsSome(found) THEN EnterFocusEvent(surface, Unwrap(found)) ELSE None
  IN  collect(first) \o <<Seat("Enter", seat_id)>>

\* KeyboardEventVariant::Press
KeyboardPress(ke, mods) ==
  LET kl == keysym_to_vkey_location(ke.keysym, ke.utf8)
  IN  <<KeyPressed(kl.key, kl.location, physical_key(ke.raw_code), ke.utf8,
                   modifiers_to_native(mods))>>

\* KeyboardEventVariant::Repeat: the pattern binds raw_code and utf8 only,
\* and raw_code is what is handed to keysym_to_vkey_location
KeyboardRepeat(ke, mods) ==
  LET kl == keysym_to_vkey_location(ke.raw_code, ke.utf8)
  IN  <<KeyPressed(kl.key, kl.location, physical_key(ke.raw_code), ke.utf8,
                   modifiers_to_native(mods))>>

\* mutant: a release also reports the modifiers, as a second event
M_KeyboardRelease_AlsoModifiers(ke, mods) ==
  LET kl == keysym_to_vkey_location(ke.keysym, ke.utf8)
  IN  <<KeyReleased(kl.key, kl.location, physical_key(ke.raw_code),
                    modifiers_to_native(mods)),
        ModifiersChanged(modifiers_to_native(mods))>>

\* KeyboardEventVariant::Release
KeyboardRelease(ke, mods) ==
  LET kl == keysym_to_vkey_location(ke.keysym, ke.utf8)
  IN  <<KeyReleased(kl.key, kl.location, physical_key(ke.raw_code),
                    modifiers_to_native(mods))>>

\* mutant: the assignment *modifiers = new_mods is missing
M_KeyboardModifiers_NoStore(new_mods, mods) ==
  Ret(<<ModifiersChanged(modifiers_to_native(new_mods))>>, mods)

\* mutant: the event is built from the mask as it was before the assignment
M_KeyboardModifiers_StaleEvent(new_mods, mods) ==
  Ret(<<ModifiersChanged(modifiers_to_native(mods))>>, new_mods)

\* KeyboardEventVariant::Modifiers: *modifiers = new_mods, then the event
KeyboardModifiers(new_mods, mods) ==
  Ret(<<ModifiersChanged(modifiers_to_native(new_mods))>>, new_mods)

\* SctkEvent::KeyboardEvent
KeyboardEventArm(self, mods, surface_ids) ==
  LET variant == self.variant
  IN  CASE variant.name = "Leave" ->
             Ret(KeyboardLeave(variant.surface, self.seat_id, surface_ids), mods)
        [] variant.name = "Enter" ->
             Ret(KeyboardEnter(variant.surface, self.seat_id, surface_ids), mods)
        [] variant.name = "Press" -> Ret(KeyboardPress(variant.ke, mods), mods)
        [] variant.name = "Repeat" -> Ret(KeyboardRepeat(variant.ke, mods), mods)
        [] variant.name = "Release" -> Ret(KeyboardRelease(variant.ke, mods), mods)
        [] variant.name = "Modifiers" -> KeyboardModifiers(variant.mods, mods)

\* WindowEventVariant::Close
WindowClose(surface, destroyed_surface_ids) ==
  LET found == get(destroyed_surface_ids, surface)
  IN  IF IsSome(found) THEN <<Window(inner(Unwrap(found)), "CloseRequested")>>
      ELSE <<>>

\* WindowEventVariant::WmCapabilities
WindowWmCapabilities(caps, surface, surface_ids) ==
  LET found == get(surface_ids, surface)
  IN  IF IsSome(found)
      THEN <<WaylandWindow("WmCapabilities", caps, surface, inner(Unwrap(found)))>>
      ELSE <<>>

\* mutant: width and height are taken from the wrong halves of new_size
M_WindowConfigure_SwappedSize(configure, surface, mods, surface_ids) ==
  IF configure.is_resizing
  THEN LET found == get(surface_ids, surface)
       IN  IF IsSome(found)
           THEN IF IsSome(configure.new_size[1]) /\ IsSome(configure.new_size[2])
                THEN Ret(<<Resized(inner(Unwrap(found)),
                                   Unwrap(configure.new_size[2]),
                                   Unwrap(configure.new_size[1]))>>, mods)
                ELSE Panic(mods)
           ELSE Ret(<<>>, mods)
  ELSE Ret(<<>>, mods)

\* mutant: unwrap_or(1) in place of unwrap(), a missing dimension defaults
M_WindowConfigure_DefaultedSize(configure, surface, mods, surface_ids) ==
  IF configure.is_resizing
  THEN LET found == get(surface_ids, surface)
           w == IF IsSome(configure.new_size[1]) THEN Unwrap(configure.new_size[1]) ELSE 1
           h == IF IsSome(configure.new_size[2]) THEN Unwrap(configure.new_size[2]) ELSE 1
       IN  IF IsSome(found) THEN Ret(<<Resized(inner(Unwrap(found)), w, h)>>, mods)
           ELSE Ret(<<>>, mods)
  ELSE Ret(<<>>, mods)

\* mutant: the two dimensions are unwrapped before the registry lookup
M_WindowConfigure_UnwrapFirst(configure, surface, mods, surface_ids) ==
  IF configure.is_resizing
  THEN IF IsSome(configure.new_size[1]) /\ IsSome(configure.new_size[2])
       THEN LET found == get(surface_ids, surface)
            IN  IF IsSome(found)
                THEN Ret(<<Resized(inner(Unwrap(found)),
                                   Unwrap(configure.new_size[1]),
                                   Unwrap(configure.new_size[2]))>>, mods)
                ELSE Ret(<<>>, mods)
       ELSE Panic(mods)
  ELSE Ret(<<>>, mods)

\* mutant: the width is unwrapped before the registry lookup, the height in
\* the closure
M_WindowConfigure_UnwrapWidthFirst(configure, surface, mods, surface_ids) ==
  IF configure.is_resizing
  THEN IF IsSome(configure.new_size[1])
       THEN LET found == get(surface_ids, surface)
            IN  IF IsSome(found)
                THEN IF IsSome(configure.new_size[2])
                     THEN Ret(<<Resized(inner(Unwrap(found)),
                                        Unwrap(configure.new_size[1]),
                                        Unwrap(configure.new_size[2]))>>, mods)
                     ELSE Panic(mods)
                ELSE Ret(<<>>, mods)
       ELSE Panic(mods)
  ELSE Ret(<<>>, mods)

\* WindowEventVariant::Configure: the variant's own surface is looked up;
\* the closure with the two unwrap() calls runs only when it is found
WindowConfigure(configure, surface, mods, surface_ids) ==
  IF configure.is_resizing
  THEN LET found == get(surface_ids, surface)
       IN  IF IsSome(found)
           THEN IF IsSome(configure.new_size[1]) /\ IsSome(configure.new_size[2])
                THEN Ret(<<Resized(inner(Unwrap(found)),
                                   Unwrap(configure.new_size[1]),
                                   Unwrap(configure.new_size[2]))>>, mods)
                ELSE Panic(mods)
           ELSE Ret(<<>>, mods)
  ELSE Ret(<<>>, mods)

\* WindowEventVariant::StateChanged
WindowStateChanged(s, surface, surface_ids) ==
  LET found == get(surface_ids, surface)
  IN  IF IsSome(found)
      THEN <<WaylandWindow("State", s, surface, inner(Unwrap(found)))>>
      ELSE <<>>

\* mutant: Close is resolved through the live registry
M_WindowEventArm_CloseLive(self, mods, surface_ids, destroyed_surface_ids) ==
  LET variant == self.variant
      surface == self.id
  IN  CASE variant.name = "Created" -> Ret(<<>>, mods)
        [] variant.name = "Close" ->
             Ret(WindowClose(surface, surface_ids), mods)
        [] variant.name = "WmCapabilities" ->
             Ret(WindowWmCapabilities(variant.caps, surface, surface_ids), mods)
        [] variant.name = "ConfigureBounds" -> Ret(<<>>, mods)
        [] variant.name = "Configure" ->
             WindowConfigure(variant.configure, variant.surface, mods, surface_ids)
        [] variant.name = "ScaleFactorChanged" -> Ret(<<>>, mods)
        [] variant.name = "StateChanged" ->
             Ret(WindowStateChanged(variant.state, surface, surface_ids), mods)

\* mutant: Configure is resolved through the destroyed registry
M_WindowEventArm_ConfigureDestroyed(self, mods, surface_ids, destroyed_surface_ids) ==
  LET variant == self.variant
      surface == self.id
  IN  CASE variant.name = "Created" -> Ret(<<>>, mods)
        [] variant.name = "Close" ->
             Ret(WindowClose(surface, destroyed_surface_ids), mods)
        [] variant.name = "WmCapabilities" ->
             Ret(WindowWmCapabilities(variant.caps, surface, surface_ids), mods)
        [] variant.name = "ConfigureBounds" -> Ret(<<>>, mods)
        [] variant.name = "Configure" ->
             WindowConfigure(variant.configure, variant.surface, mods,
                             destroyed_surface_ids)
        [] variant.name = "ScaleFactorChanged" -> Ret(<<>>, mods)
        [] variant.name = "StateChanged" ->
             Ret(WindowStateChanged(variant.state, surface, surface_ids), mods)

\* SctkEvent::WindowEvent
WindowEventArm(self, mods, surface_ids, destroyed_surface_ids) ==
  LET variant == self.variant
      surface == self.id
  IN  CASE variant.name = "Created" -> Ret(<<>>, mods)
        [] variant.name = "Close" ->
             Ret(WindowClose(surface, destroyed_surface_ids), mods)
        [] variant.name = "WmCapabilities" ->
             Ret(WindowWmCapabilities(variant.caps, surface, surface_ids), mods)
        [] variant.name = "ConfigureBounds" -> Ret(<<>>, mods)
        [] variant.name = "Configure" ->
             WindowConfigure(variant.configure, variant.surface, mods, surface_ids)
        [] variant.name = "ScaleFactorChanged" -> Ret(<<>>, mods)
        [] variant.name = "StateChanged" ->
             Ret(WindowStateChanged(variant.state, surface, surface_ids), mods)

\* mutant: a lookup miss is papered over with a placeholder id
M_LayerSurfaceDone_DefaultId(surface, destroyed_surface_ids) ==
  LET found == get(destroyed_surface_ids, surface)
  IN  <<Layer("Done", surface, IF IsSome(found) THEN inner(Unwrap(found)) ELSE 0)>>

\* LayerSurfaceEventVariant::Done
LayerSurfaceDone(surface, destroyed_surface_ids) ==
  LET found == get(destroyed_surface_ids, surface)
  IN  IF IsSome(found) THEN <<Layer("Done", surface, inner(Unwrap(found)))>>
      ELSE <<>>

\* SctkEvent::LayerSurfaceEvent
LayerSurfaceEventArm(self, mods, destroyed_surface_ids) ==
  IF self.variant.name = "Done"
  THEN Ret(LayerSurfaceDone(self.id, destroyed_surface_ids), mods)
  ELSE Ret(<<>>, mods)

\* PopupEventVariant::Done
PopupDone(surface, destroyed_surface_ids) ==
  LET found == get(destroyed_surface_ids, surface)
  IN  IF IsSome(found) THEN <<Popup("Done", surface, inner(Unwrap(found)))>>
      ELSE <<>>

\* mutant: the arms marked TODO are todo!() and unwind
M_PopupEventArm_TodoPanics(self, mods, destroyed_surface_ids) ==
  LET variant == self.variant
  IN  CASE variant.name = "Done" ->
             Ret(PopupDone(self.id, destroyed_surface_ids), mods)
        [] variant.name = "Created" -> Panic(mods)
        [] variant.name = "Configure" -> Panic(mods)
        [] variant.name = "RepositionionedPopup" -> Ret(<<>>, mods)
        [] variant.name = "Size" -> Ret(<<>>, mods)
        [] variant.name = "ScaleFactorChanged" -> Panic(mods)

\* SctkEvent::PopupEvent
PopupEventArm(self, mods, destroyed_surface_ids) ==
  LET variant == self.variant
  IN  CASE variant.name = "Done" ->
             Ret(PopupDone(self.id, destroyed_surface_ids), mods)
        [] variant.name = "Created" -> Ret(<<>>, mods)
        [] variant.name = "Configure" -> Ret(<<>>, mods)
        [] variant.name = "RepositionionedPopup" -> Ret(<<>>, mods)
        [] variant.name = "Size" -> Ret(<<>>, mods)
        [] variant.name = "ScaleFactorChanged" -> Ret(<<>>, mods)

\* SctkEvent::NewOutput / UpdateOutput / RemovedOutput
OutputArm(self, mods) ==
  CASE self.type = "NewOutput" -> Ret(<<OutputCreated(self.info_opt, self.id)>>, mods)
    [] self.type = "UpdateOutput" -> Ret(<<OutputInfoUpdate(self.info, self.id)>>, mods)
    [] self.type = "RemovedOutput" -> Ret(<<OutputRemoved(self.id)>>, mods)

\* mutant: a scale change is reported as a resize of surface 0
M_ScaleFactorChangedArm_Resizes(self, mods) == Ret(<<Resized(0, 1, 1)>>, mods)

\* SctkEvent::ScaleFactorChanged
ScaleFactorChangedArm(self, mods) == Ret(<<>>, mods)

\* SctkEvent::DndOffer
DndOfferArm(self, mods) ==
  LET event == self.event
  IN  CASE event.name = "Enter" ->
             Ret(<<DndOffer("Enter", [mime_types |-> event.mime_types,
                                      x |-> event.x, y |-> event.y])>>, mods)
        [] event.name = "Motion" ->
             Ret(<<DndOffer("Motion", [x |-> event.x, y |-> event.y])>>, mods)
        [] event.name = "DropPerformed" ->
             Ret(<<DndOfferUnit("DropPerformed")>>, mods)
        [] event.name = "Leave" -> Ret(<<DndOfferUnit("Leave")>>, mods)
        [] event.name = "Data" ->
             Ret(<<DndOffer("DndData", [data |-> event.data,
                                        mime_type |-> event.mime_type])>>, mods)
        [] event.name = "SourceActions" ->
             Ret(<<DndOffer("SourceActions", [actions |-> event.actions])>>, mods)
        [] event.name = "SelectedAction" ->
             Ret(<<DndOffer("SelectedAction", [action |-> event.action])>>, mods)

\* mutant: a cancelled drag is reported as a finished one
M_DataSourceArm_CancelledAsFinished(self, mods) ==
  LET event == self.event
  IN  CASE event.name = "DndDropPerformed" ->
             Ret(<<DataSourceUnit("DndDropPerformed")>>, mods)
        [] event.name = "DndFinished" -> Ret(<<DataSourceUnit("DndFinished")>>, mods)
        [] event.name = "DndCancelled" -> Ret(<<DataSourceUnit("DndFinished")>>, mods)
        [] event.name = "MimeAccepted" ->
             Ret(<<DataSource("MimeAccepted", [mime_type_opt |-> event.mime_type_opt])>>, mods)
        [] event.name = "DndActionAccepted" ->
             Ret(<<DataSource("DndActionAccepted", [action |-> event.action])>>, mods)
        [] event.name = "SendDndData" ->
             Ret(<<DataSource("SendDndData", [mime_type |-> event.mime_type])>>, mods)
        [] event.name = "SendSelectionData" ->
             Ret(<<DataSource("SendSelectionData", [mime_type |-> event.mime_type])>>, mods)

\* SctkEvent::DataSource
DataSourceArm(self, mods) ==
  LET event == self.event
  IN  CASE event.name = "DndDropPerformed" ->
             Ret(<<DataSourceUnit("DndDropPerformed")>>, mods)
        [] event.name = "DndFinished" -> Ret(<<DataSourceUnit("DndFinished")>>, mods)
        [] event.name = "DndCancelled" -> Ret(<<DataSourceUnit("Cancelled")>>, mods)
        [] event.name = "MimeAccepted" ->
             Ret(<<DataSource("MimeAccepted", [mime_type_opt |-> event.mime_type_opt])>>, mods)
        [] event.name = "DndActionAccepted" ->
             Ret(<<DataSource("DndActionAccepted", [action |-> event.action])>>, mods)
        [] event.name = "SendDndData" ->
             Ret(<<DataSource("SendDndData", [mime_type |-> event.mime_type])>>, mods)
        [] event.name = "SendSelectionData" ->
             Ret(<<DataSource("SendSelectionData", [mime_type |-> event.mime_type])>>, mods)

\* SctkEvent::SessionLocked / SessionLockFinished / SessionLockSurfaceCreated /
\* SessionLockSurfaceConfigure / SessionUnlocked
SessionLockArm(self, mods) ==
  CASE self.type = "SessionLocked" -> Ret(<<SessionLock("Locked")>>, mods)
    [] self.type = "SessionLockFinished" -> Ret(<<SessionLock("Finished")>>, mods)
    [] self.type = "SessionLockSurfaceCreated" -> Ret(<<>>, mods)
    [] self.type = "SessionLockSurfaceConfigure" -> Ret(<<>>, mods)
    [] self.type = "SessionUnlocked" -> Ret(<<SessionLock("Unlocked")>>, mods)

\* mutant: the keyboard arm falls back to the destroyed registry for a
\* handle that is no longer live
M_to_native_FocusFallsBack(self, mods, surface_ids, destroyed_surface_ids) ==
  CASE self.type = "SeatEvent" -> SeatEventArm(self, mods)
    [] self.type = "PointerEvent" -> PointerEventArm(self, mods)
    [] self.type = "KeyboardEvent" ->
         KeyboardEventArm(self, mods,
           [k \in DOMAIN surface_ids \cup DOMAIN destroyed_surface_ids |->
              IF k \in DOMAIN surface_ids THEN surface_ids[k]
              ELSE destroyed_surface_ids[k]])
    [] self.type = "WindowEvent" ->
         WindowEventArm(self, mods, surface_ids, destroyed_surface_ids)
    [] self.type = "LayerSurfaceEvent" ->
         LayerSurfaceEventArm(self, mods, destroyed_surface_ids)
    [] self.type = "PopupEvent" -> PopupEventArm(self, mods, destroyed_surface_ids)
    [] self.type \in {"NewOutput", "UpdateOutput", "RemovedOutput"} ->
         OutputArm(self, mods)
    [] self.type = "ScaleFactorChanged" -> ScaleFactorChangedArm(self, mods)
    [] self.type = "DndOffer" -> DndOfferArm(self, mods)
    [] self.type = "DataSource" -> DataSourceArm(self, mods)
    [] self.type \in {"SessionLocked", "SessionLockFinished",
                      "SessionLockSurfaceCreated", "SessionLockSurfaceConfigure",
                      "SessionUnlocked"} -> SessionLockArm(self, mods)

\* SctkEvent::to_native
to_native(self, mods, surface_ids, destroyed_surface_ids) ==
  CASE self.type = "SeatEvent" -> SeatEventArm(self, mods)
    [] self.type = "PointerEvent" -> PointerEventArm(self, mods)
    [] self.type = "KeyboardEvent" -> KeyboardEventArm(self, mods, surface_ids)
    [] self.type = "WindowEvent" ->
         WindowEventArm(self, mods, surface_ids, destroyed_surface_ids)
    [] self.type = "LayerSurfaceEvent" ->
         LayerSurfaceEventArm(self, mods, destroyed_surface_ids)
    [] self.type = "PopupEvent" -> PopupEventArm(self, mods, destroyed_surface_ids)
    [] self.type \in {"NewOutput", "UpdateOutput", "RemovedOutput"} ->
         OutputArm(self, mods)
    [] self.type = "ScaleFactorChanged" -> ScaleFactorChangedArm(self, mods)
    [] self.type = "DndOffer" -> DndOfferArm(self, mods)
    [] self.type = "DataSource" -> DataSourceArm(self, mods)
    [] self.type \in {"SessionLocked", "SessionLockFinished",
                      "SessionLockSurfaceCreated", "SessionLockSurfaceConfigure",
                      "SessionUnlocked"} -> SessionLockArm(self, mods)

(* ------------------- platform events (inputs) ------------------------- *)
\* sctk KeyEvent values: Escape, the letter a, left shift, Return (a named
\* key that also carries text) and a key unknown to every table
KeyEvents ==
  {[keysym |-> 65307, raw_code |-> 1, utf8 |-> None],
   [keysym |-> 97, raw_code |-> 30, utf8 |-> Some("a")],
   [keysym |-> 65505, raw_code |-> 42, utf8 |-> None],
   [keysym |-> 65293, raw_code |-> 28, utf8 |-> Some("CR")],
   [keysym |-> 0, raw_code |-> 9999, utf8 |-> None]}

SeatEvents ==
  {[type |-> "SeatEvent", variant |-> [name |-> v], id |-> "seat0"] :
      v \in {"New", "Remove", "NewCapability", "RemoveCapability"}}

PointerEventKinds ==
  {[name |-> n] : n \in {"Enter", "Leave", "Motion"}}
  \cup {[name |-> n, button |-> b] : n \in {"Press", "Release"},
                                     b \in {272, 273, 274, 999}}
  \cup {[name |-> "Axis", source |-> src,
         horizontal |-> [absolute |-> 3, discrete |-> 0],
         vertical |-> [absolute |-> 15, discrete |-> 1]] :
           src \in {Some("Wheel"), Some("Finger"), Some("Continuous"),
                    Some("WheelTilt"), None}}

PointerEvents ==
  {[type |-> "PointerEvent", variant |-> [kind |-> k, position |-> p],
    seat_id |-> "seat0"] :
      k \in PointerEventKinds, p \in {<<10, 20>>}}
  \cup {[type |-> "PointerEvent",
         variant |-> [kind |-> [name |-> "Motion"], position |-> <<16777217, 16777219>>],
         seat_id |-> "seat0"]}

KeyboardEvents ==
  {[type |-> "KeyboardEvent", variant |-> [name |-> n, surface |-> h], seat_id |-> s] :
      n \in {"Leave", "Enter"}, h \in Handles, s \in Seats}
  \cup {[type |-> "KeyboardEvent", variant |-> [name |-> n, ke |-> ke],
         seat_id |-> "seat0"] :
           n \in {"Press", "Repeat", "Release"}, ke \in KeyEvents}
  \cup {[type |-> "KeyboardEvent", variant |-> [name |-> "Modifiers", mods |-> m],
         seat_id |-> "seat0"] : m \in Masks}

WindowConfigures ==
  [is_resizing : BOOLEAN,
   new_size : {None, Some(800)} \X {None, Some(600)}]

WindowEvents ==
  {[type |-> "WindowEvent", variant |-> [name |-> n], id |-> h] :
      n \in {"Created", "Close", "ConfigureBounds", "ScaleFactorChanged"},
      h \in Handles}
  \cup {[type |-> "WindowEvent",
         variant |-> [name |-> "WmCapabilities", caps |-> "MAXIMIZE"], id |-> h] :
           h \in Handles}
  \cup {[type |-> "WindowEvent",
         variant |-> [name |-> "StateChanged", state |-> "ACTIVATED"], id |-> h] :
           h \in Handles}
  \cup {[type |-> "WindowEvent",
         variant |-> [name |-> "Configure", configure |-> c, surface |-> h],
         id |-> h] : c \in WindowConfigures, h \in Handles}

LayerSurfaceEvents ==
  {[type |-> "LayerSurfaceEvent", variant |-> [name |-> n], id |-> h] :
      n \in {"Created", "Done", "Configure", "ScaleFactorChanged"}, h \in Handles}

PopupEvents ==
  {[type |-> "PopupEvent", variant |-> [name |-> n], id |-> h] :
      n \in {"Created", "Done", "Configure", "RepositionionedPopup", "Size",
             "ScaleFactorChanged"}, h \in Handles}

OutputEvents ==
  {[type |-> "NewOutput", id |-> "output0", info_opt |-> i] : i \in {None, Some("info")}}
  \cup {[type |-> "UpdateOutput", id |-> "output0", info |-> "info"],
        [type |-> "RemovedOutput", id |-> "output0"]}

ScaleFactorChangedEvents == {[type |-> "ScaleFactorChanged", id |-> "output0"]}

DndOfferEvents ==
  {[type |-> "DndOffer", event |-> e, surface |-> "wl_surface@1"] :
      e \in {[name |-> "Enter", x |-> 1, y |-> 2, mime_types |-> <<"text/plain">>],
             [name |-> "Leave"],
             [name |-> "Motion", x |-> 1, y |-> 2],
             [name |-> "DropPerformed"],
             [name |-> "Data", data |-> <<104, 105>>, mime_type |-> "text/plain"],
             [name |-> "SourceActions", actions |-> "Copy"],
             [name |-> "SelectedAction", action |-> "Move"]}}

DataSourceEvents ==
  {[type |-> "DataSource", event |-> e] :
      e \in {[name |-> "DndActionAccepted", action |-> "Copy"],
             [name |-> "MimeAccepted", mime_type_opt |-> None],
             [name |-> "MimeAccepted", mime_type_opt |-> Some("text/plain")],
             [name |-> "DndFinished"],
             [name |-> "DndCancelled"],
             [name |-> "DndDropPerformed"],
             [name |-> "SendSelectionData", mime_type |-> "text/plain"],
             [name |-> "SendDndData", mime_type |-> "text/plain"]}}

SessionLockEvents ==
  {[type |-> t] : t \in {"SessionLocked", "SessionLockFinished", "SessionUnlocked"}}
  \cup {[type |-> t, surface |-> h] :
          t \in {"SessionLockSurfaceCreated", "SessionLockSurfaceConfigure"},
          h \in Handles}

NoEvent == [type |-> "None"]

(* ------------------------------ Button -------------------------------- *)
\* the messages an application attaches to a button
Messages == {"ButtonPressed"}
\* layout.bounds() of the button, and the cursors the runtime passes:
\* mouse::Cursor::Unavailable or Available(position)
ButtonBounds == [x |-> 0, y |-> 0, width |-> 2, height |-> 1]
Cursors == {None} \cup {Some(<<x, y>>) : x \in 0..MaxCoord, y \in 0..MaxCoord}
\* mouse::Cursor::is_over: the cursor is available and the rectangle
\* contains its position
is_over(cursor, rect) ==
  /\ IsSome(cursor)
  /\ rect.x <= Unwrap(cursor)[1] /\ Unwrap(cursor)[1] < rect.x + rect.width
  /\ rect.y <= Unwrap(cursor)[2] /\ Unwrap(cursor)[2] < rect.y + rect.height

\* touch::Event
Touch(e) == [tag |-> "Touch", event |-> e]

\* Button::new, Button::on_press and Button::on_press_maybe
Button_new == [on_press |-> None]
Button_on_press(self, message) == [self EXCEPT !.on_press = Some(message)]
Button_on_press_maybe(self, on_press) == [self EXCEPT !.on_press = on_press]

\* State::new, State::is_focused, State::pressed, State::focus, State::reset
State_new == [is_focused |-> FALSE, is_pressed |-> FALSE, is_active |-> FALSE]
is_focused(state) == state.is_focused
pressed(state) == [is_focused |-> TRUE, is_pressed |-> TRUE, is_active |-> TRUE]
focus(state) == [state EXCEPT !.is_focused = TRUE]
reset(state) == [is_focused |-> FALSE, is_pressed |-> FALSE, is_active |-> FALSE]

\* impl operation::Focusable for State
\* mutant: Focusable::focus does not reset first
M_Focusable_focus_NoReset(state) == focus(state)
Focusable_focus(state) == focus(reset(state))
Focusable_unfocus(state) == reset(state)

\* what a call of update leaves behind: the State, the returned
\* event::Status and the messages published to the Shell
Updated(state, status, shell) == [state |-> state, status |-> status, shell |-> shell]

IsPress(event) ==
  \/ event = MouseButton("ButtonPressed", "Left")
  \/ event = Touch("FingerPressed")
IsRelease(event) ==
  \/ event = MouseButton("ButtonReleased", "Left")
  \/ event = Touch("FingerLifted")

\* mutant: a press inside the bounds is captured whether or not on_press is
\* set
M_update_PressAlwaysCaptured(event, layout, cursor, shell, on_press, state) ==
  CASE IsPress(event) ->
         IF is_over(cursor, layout) THEN Updated(pressed(state), "Captured", shell)
         ELSE IF IsSome(on_press) THEN Updated(reset(state), "Ignored", shell)
         ELSE Updated(state, "Ignored", shell)
    [] IsRelease(event) ->
         IF IsSome(on_press) /\ state.is_pressed
         THEN Updated(reset(state), "Captured",
                      IF is_over(cursor, layout)
                      THEN Append(shell, Unwrap(on_press)) ELSE shell)
         ELSE Updated(state, "Ignored", shell)
    [] event = Touch("FingerLost") -> Updated(reset(state), "Ignored", shell)
    [] event.tag = "Keyboard" /\ event.event = "KeyPressed" ->
         IF event.key = Named("Enter") /\ is_focused(state) /\ IsSome(on_press)
         THEN Updated(pressed(state), "Ignored", Append(shell, Unwrap(on_press)))
         ELSE Updated(state, "Ignored", shell)
    [] OTHER -> Updated(state, "Ignored", shell)

\* mutant: a release of a pressed button publishes wherever the cursor is
M_update_ReleasePublishesAnywhere(event, layout, cursor, shell, on_press, state) ==
  CASE IsPress(event) ->
         IF IsSome(on_press)
         THEN IF is_over(cursor, layout)
              THEN Updated(pressed(state), "Captured", shell)
              ELSE Updated(reset(state), "Ignored", shell)
         ELSE Updated(state, "Ignored", shell)
    [] IsRelease(event) ->
         IF IsSome(on_press) /\ state.is_pressed
         THEN Updated(reset(state), "Captured", Append(shell, Unwrap(on_press)))
         ELSE Updated(state, "Ignored", shell)
    [] event = Touch("FingerLost") -> Updated(reset(state), "Ignored", shell)
    [] event.tag = "Keyboard" /\ event.event = "KeyPressed" ->
         IF event.key = Named("Enter") /\ is_focused(state) /\ IsSome(on_press)
         THEN Updated(pressed(state), "Ignored", Append(shell, Unwrap(on_press)))
         ELSE Updated(state, "Ignored", shell)
    [] OTHER -> Updated(state, "Ignored", shell)

\* mutant: a press outside the bounds leaves the State as it is
M_update_PressOutsideKeepsState(event, layout, cursor, shell, on_press, state) ==
  CASE IsPress(event) ->
         IF IsSome(on_press) /\ is_over(cursor, layout)
         THEN Updated(pressed(state), "Captured", shell)
         ELSE Updated(state, "Ignored", shell)
    [] IsRelease(event) ->
         IF IsSome(on_press) /\ state.is_pressed
         THEN Updated(reset(state), "Captured",
                      IF is_over(cursor, layout)
                      THEN Append(shell, Unwrap(on_press)) ELSE shell)
         ELSE Updated(state, "Ignored", shell)
    [] event = Touch("FingerLost") -> Updated(reset(state), "Ignored", shell)
    [] event.tag = "Keyboard" /\ event.event = "KeyPressed" ->
         IF event.key = Named("Enter") /\ is_focused(state) /\ IsSome(on_press)
         THEN Updated(pressed(state), "Ignored", Append(shell, Unwrap(on_press)))
         ELSE Updated(state, "Ignored", shell)
    [] OTHER -> Updated(state, "Ignored", shell)

\* mutant: Enter activates the button whether or not it is focused
M_update_EnterWithoutFocus(event, layout, cursor, shell, on_press, state) ==
  CASE IsPress(event) ->
         IF IsSome(on_press)
         THEN IF is_over(cursor, layout)
              THEN Updated(pressed(state), "Captured", shell)
              ELSE Updated(reset(state), "Ignored", shell)
         ELSE Updated(state, "Ignored", shell)
    [] IsRelease(event) ->
         IF IsSome(on_press) /\ state.is_pressed
         THEN Updated(reset(state), "Captured",
                      IF is_over(cursor, layout)
                      THEN Append(shell, Unwrap(on_press)) ELSE shell)
         ELSE Updated(state, "Ignored", shell)
    [] event = Touch("FingerLost") -> Updated(reset(state), "Ignored", shell)
    [] event.tag = "Keyboard" /\ event.event = "KeyPressed" ->
         IF event.key = Named("Enter") /\ IsSome(on_press)
         THEN Updated(pressed(state), "Ignored", Append(shell, Unwrap(on_press)))
         ELSE Updated(state, "Ignored", shell)
    [] OTHER -> Updated(state, "Ignored", shell)

\* update
update(event, layout, cursor, shell, on_press, state) ==
  CASE IsPress(event) ->
         IF IsSome(on_press)
         THEN IF is_over(cursor, layout)
              THEN Updated(pressed(state), "Captured", shell)
              ELSE Updated(reset(state), "Ignored", shell)
         ELSE Updated(state, "Ignored", shell)
    [] IsRelease(event) ->
         IF IsSome(on_press) /\ state.is_pressed
         THEN Updated(reset(state), "Captured",
                      IF is_over(cursor, layout)
                      THEN Append(shell, Unwrap(on_press)) ELSE shell)
         ELSE Updated(state, "Ignored", shell)
    [] event = Touch("FingerLost") -> Updated(reset(state), "Ignored", shell)
    [] event.tag = "Keyboard" /\ event.event = "KeyPressed" ->
         IF event.key = Named("Enter") /\ is_focused(state) /\ IsSome(on_press)
         THEN Updated(pressed(state), "Ignored", Append(shell, Unwrap(on_press)))
         ELSE Updated(state, "Ignored", shell)
    [] OTHER -> Updated(state, "Ignored", shell)

\* mutant: the button's update runs even when the content captured the event
M_on_event_UpdateAlways(self, state, event, layout, cursor, shell, content_status) ==
  LET r == update(event, layout, cursor, shell, self.on_press, state)
  IN  IF content_status = "Captured" THEN Updated(r.state, "Captured", r.shell)
      ELSE r

\* Button::on_event: the content is asked first
on_event(self, state, event, layout, cursor, shell, content_status) ==
  IF content_status = "Captured" THEN Updated(state, "Captured", shell)
  ELSE update(event, layout, cursor, shell, self.on_press, state)

\* the events a button is handed: left and right mouse button, touch, the
\* Enter key and another key, pressed and released, and a cursor event
ButtonEvents ==
  {MouseButton("ButtonPressed", "Left"), MouseButton("ButtonPressed", "Right"),
   MouseButton("ButtonReleased", "Left"), MouseButton("ButtonReleased", "Right"),
   Touch("FingerPressed"), Touch("FingerLifted"), Touch("FingerLost"),
   Touch("FingerMoved"), Mouse("CursorEntered"),
   KeyPressed(Named("Enter"), "Standard", "Enter", None, {}),
   KeyPressed(Character("a"), "Standard", "KeyA", Some("a"), {}),
   KeyReleased(Named("Enter"), "Standard", "Enter", {})}

(* ------------ core::window::settings (layer shell, linux) -------------- *)
\* #[derive(Default)] on enum KeyboardInteractivity { None, Exclusive,
\* OnDemand }: the value is the variant that carries #[default]
KeyboardInteractivity_default == "OnDemand"
\* #[derive(Default)] on LayerShellSettings: every Option field is None (unset)
LayerShellSettings_default ==
  [layer |-> None, anchor |-> None, keyboard_interactivity |-> None]
\* the values an application can give the public fields: a Layer, an Anchor
\* (bitflags over four edges), a KeyboardInteractivity
FieldValues ==
  [layer |-> {"Background", "Bottom", "Top", "Overlay"},
   anchor |-> SUBSET {"TOP", "BOTTOM", "LEFT", "RIGHT"},
   keyboard_interactivity |-> {"None", "Exclusive", "OnDemand"}]

(* ----------------------------- state ---------------------------------- *)
VARIABLES
  modifiers,              \* the Modifiers the event loop passes by &mut
  surface_ids,            \* live registry: handle -> SurfaceIdWrapper
  destroyed_surface_ids,  \* destroyed registry: handle -> SurfaceIdWrapper
  next_id,                \* next unused surface id
  event,                  \* the platform event of the last to_native call
  out,                    \* the Vec that call returned
  panicked,               \* the call unwound on unwrap() of None
  prev_modifiers,         \* history: modifiers when that call started
  last_mask,              \* history: mask of the latest Modifiers event
  registered,             \* history: identity of each handle's latest register
  retired,                \* history: handles retired since their latest register
  focus_sent,             \* history: ids a Window Focused event has named
                          \* with no Window Unfocused event for them since
  pk_code,                \* the raw code of the last physical_key call
  pk_result,              \* the PhysicalKey that call returned
  pk_prev,                \* history: the result of the call before, same code
  modifiers_b,            \* a second run of the event loop: its Modifiers
  surface_ids_b,          \* its live registry
  destroyed_surface_ids_b, \* its destroyed registry
  next_id_b,              \* its next unused surface id
  out_b,                  \* the Vec its last to_native call returned
  panicked_b,             \* its last call unwound
  prev_modifiers_b,       \* history: its modifiers when that call started
  solo_b,                 \* history: it has made a step the first run has not
  reg_call,               \* history: the arguments of the last register call
  reg_before,             \* history: the live registry before that call
  reg_repeat,             \* history: how often that call has been repeated
  clip_ctor,              \* history: the constructor the Clipboard was built with
  clip_state,             \* Clipboard.state: Connected or Unavailable
  sel_standard,           \* the compositor's standard selection
  sel_primary,            \* the compositor's primary selection
  clip_op,                \* the last Clipboard call and its arguments
  clip_result,            \* what the last read returned
  clip_backend,           \* the backend function that call invoked
  clip_load,              \* the outcome of the backend load of that call
  btn_self,               \* the Button the view built last
  btn_state,              \* its State, kept in the widget tree
  btn_event,              \* the event of the last on_event call
  btn_cursor,             \* the cursor of that call
  btn_content,            \* the Status the button's content returned for it
  btn_status,             \* the Status that call returned
  btn_shell,              \* the messages that call published
  btn_op,                 \* history: the last operation on the button
  btn_prev,               \* history: the State before that operation
  btn_armed,              \* history: the button was handed a left press or
                          \* finger press over its bounds since the last
                          \* State::reset
  btn_prev_armed,         \* history: the same, before the last operation
  layer_shell,            \* the LayerShellSettings an application is building
  ls_op                   \* history: the last operation on those settings

\* the variables of the event translation, and those of the key table
sctk_vars == <<modifiers, surface_ids, destroyed_surface_ids, next_id, event, out,
               panicked, prev_modifiers, last_mask, registered, retired>>
key_vars == <<pk_code, pk_result, pk_prev>>
twin_vars == <<modifiers_b, surface_ids_b, destroyed_surface_ids_b, next_id_b,
               out_b, panicked_b, prev_modifiers_b, solo_b>>
reg_vars == <<reg_call, reg_before, reg_repeat>>
clip_vars == <<clip_ctor, clip_state, sel_standard, sel_primary, clip_op,
               clip_result, clip_backend, clip_load>>
btn_vars == <<btn_self, btn_state, btn_event, btn_cursor, btn_content, btn_status,
              btn_shell, btn_op, btn_prev, btn_armed, btn_prev_armed>>
ls_vars == <<layer_shell, ls_op>>
focus_vars == <<focus_sent>>
non_sctk_vars == <<key_vars, twin_vars, reg_vars, clip_vars, btn_vars, ls_vars, focus_vars>>
non_key_vars == <<sctk_vars, twin_vars, reg_vars, clip_vars, btn_vars, ls_vars, focus_vars>>
non_twin_vars == <<key_vars, reg_vars, clip_vars, btn_vars, ls_vars, focus_vars>>
non_reg_vars == <<key_vars, twin_vars, clip_vars, btn_vars, ls_vars, focus_vars>>
non_clip_vars == <<sctk_vars, key_vars, twin_vars, reg_vars, btn_vars, ls_vars, focus_vars>>
non_btn_vars == <<sctk_vars, key_vars, twin_vars, reg_vars, clip_vars, ls_vars, focus_vars>>
non_ls_vars == <<sctk_vars, key_vars, twin_vars, reg_vars, clip_vars, btn_vars, focus_vars>>

non_focus_vars == <<key_vars, twin_vars, reg_vars, clip_vars, btn_vars, ls_vars>>

vars == <<sctk_vars, key_vars, twin_vars, reg_vars, clip_vars, btn_vars, ls_vars,
          focus_vars>>

\* the settings as LayerShellSettings::default() builds them
SettingsIdle == layer_shell = LayerShellSettings_default /\ ls_op = "default"

\* no physical_key call has been made
KeyIdle == pk_code = None /\ pk_result = None /\ pk_prev = None

\* no on_event call has been made
NoButtonEvent == [tag |-> "None"]
\* a Button as Button::new builds it, with the State of State::new
ButtonIdle ==
  /\ btn_self = Button_new
  /\ btn_state = State_new
  /\ btn_event = NoButtonEvent
  /\ btn_cursor = None
  /\ btn_content = "none"
  /\ btn_status = "none"
  /\ btn_shell = <<>>
  /\ btn_op = "new"
  /\ btn_prev = State_new
  /\ btn_armed = FALSE
  /\ btn_prev_armed = FALSE

\* no Clipboard has been built
ClipIdle ==
  /\ clip_ctor = "none"
  /\ clip_state = "none"
  /\ sel_standard = None
  /\ sel_primary = None
  /\ clip_op = None
  /\ clip_result = None
  /\ clip_backend = "none"
  /\ clip_load = "none"

\* no register call has been made
RegIdle == reg_call = None /\ reg_before = EmptyMap /\ reg_repeat = 0

\* the second run at rest: its state right after construction
TwinIdle ==
  /\ modifiers_b = 0
  /\ surface_ids_b = EmptyMap
  /\ destroyed_surface_ids_b = EmptyMap
  /\ next_id_b = 1
  /\ out_b = <<>>
  /\ panicked_b = FALSE
  /\ prev_modifiers_b = 0
  /\ solo_b = FALSE

\* the event loop starts from Modifiers::default() and two empty registries
Init ==
  /\ modifiers = 0
  /\ surface_ids = EmptyMap
  /\ destroyed_surface_ids = EmptyMap
  /\ next_id = 1
  /\ event = NoEvent
  /\ out = <<>>
  /\ panicked = FALSE
  /\ prev_modifiers = modifiers
  /\ last_mask = modifiers
  /\ registered = EmptyMap
  /\ retired = {}
  /\ focus_sent = {}
  /\ KeyIdle
  /\ TwinIdle
  /\ RegIdle
  /\ ClipIdle
  /\ ButtonIdle
  /\ SettingsIdle

(* ------------------------ registry operations ------------------------- *)
\* register(handle, identity): a handle already present keeps its mapping
\* (same identity: idempotent; different identity: rejected); otherwise the
\* mapping is inserted.  Surface ids are process-unique, so the identity of
\* a new mapping carries the next unused id.
\* mutant: a conflicting register drops the mapping it collides with
M_register_DropOnConflict(live, h, identity) ==
  IF h \in DOMAIN live
  THEN (IF live[h] = identity THEN live ELSE remove(live, h))
  ELSE insert(live, h, identity)

\* mutant: a plain insert, which replaces the mapping of a live handle
M_register_Overwrite(live, h, identity) == insert(live, h, identity)

register(live, h, identity) ==
  IF h \in DOMAIN live THEN live ELSE insert(live, h, identity)

Register(h, identity) ==
  /\ ~panicked
  /\ event = NoEvent
  /\ \/ h \in DOMAIN surface_ids
     \/ next_id <= MaxId /\ identity.id = next_id
  /\ surface_ids' = register(surface_ids, h, identity)
  /\ IF h \in DOMAIN surface_ids
     THEN UNCHANGED <<next_id, registered, retired>>
     ELSE /\ next_id' = next_id + 1
          /\ registered' = insert(registered, h, identity)
          /\ retired' = retired \ {h}
  /\ UNCHANGED <<modifiers, destroyed_surface_ids, event, out, panicked,
                 prev_modifiers, last_mask>>
  /\ UNCHANGED non_sctk_vars

\* retire(handle): moves the mapping from the live to the destroyed registry
retire_live(live, h) == remove(live, h)
\* mutant: the mapping is dropped instead of moved
M_retire_destroyed_Dropped(live, destroyed, h) == destroyed

retire_destroyed(live, destroyed, h) == insert(destroyed, h, live[h])

Retire(h) ==
  /\ ~panicked
  /\ event = NoEvent
  /\ h \in DOMAIN surface_ids
  /\ surface_ids' = retire_live(surface_ids, h)
  /\ destroyed_surface_ids' = retire_destroyed(surface_ids, destroyed_surface_ids, h)
  /\ retired' = retired \cup {h}
  /\ UNCHANGED <<modifiers, next_id, event, out, panicked, prev_modifiers,
                 last_mask, registered>>
  /\ UNCHANGED non_sctk_vars

(* ------------------------ event translation --------------------------- *)
\* one call of SctkEvent::to_native by the event loop
ToNative(e) ==
  /\ ~panicked
  /\ event = NoEvent
  /\ LET r == to_native(e, modifiers, surface_ids, destroyed_surface_ids)
     IN  /\ out' = r.out
         /\ modifiers' = r.modifiers
         /\ panicked' = r.panic
  /\ event' = e
  /\ prev_modifiers' = modifiers
  /\ last_mask' = IF e.type = "KeyboardEvent" /\ e.variant.name = "Modifiers"
                  THEN e.variant.mods ELSE last_mask
  /\ UNCHANGED <<surface_ids, destroyed_surface_ids, next_id, registered, retired>>
  /\ UNCHANGED non_sctk_vars

SeatEvent == \E e \in SeatEvents : ToNative(e)
PointerEvent == \E e \in PointerEvents : ToNative(e)
KeyboardEvent == \E e \in KeyboardEvents : ToNative(e)
WindowEvent == \E e \in WindowEvents : ToNative(e)
LayerSurfaceEvent == \E e \in LayerSurfaceEvents : ToNative(e)
PopupEvent == \E e \in PopupEvents : ToNative(e)
OutputEvent == \E e \in OutputEvents : ToNative(e)
ScaleFactorChanged == \E e \in ScaleFactorChangedEvents : ToNative(e)
DndOfferEvent == \E e \in DndOfferEvents : ToNative(e)
DataSourceEvent == \E e \in DataSourceEvents : ToNative(e)
SessionLockEvent == \E e \in SessionLockEvents : ToNative(e)

\* the application event loop drains the returned Vec before the next call
Consume ==
  /\ ~panicked
  /\ event # NoEvent
  /\ event' = NoEvent
  /\ out' = <<>>
  /\ prev_modifiers' = modifiers
  /\ UNCHANGED <<modifiers, surface_ids, destroyed_surface_ids, next_id, panicked,
                 last_mask, registered, retired>>
  /\ UNCHANGED non_sctk_vars

Next ==
  \/ \E h \in Handles, identity \in SurfaceIdWrapper : Register(h, identity)
  \/ \E h \in Handles : Retire(h)
  \/ SeatEvent
  \/ PointerEvent
  \/ KeyboardEvent
  \/ WindowEvent
  \/ LayerSurfaceEvent
  \/ PopupEvent
  \/ OutputEvent
  \/ ScaleFactorChanged
  \/ DndOfferEvent
  \/ DataSourceEvent
  \/ SessionLockEvent
  \/ Consume

Spec == Init /\ [][Next]_vars

TypeOK ==
  /\ modifiers \in Masks
  /\ DOMAIN surface_ids \subseteq Handles
  /\ DOMAIN destroyed_surface_ids \subseteq Handles
  /\ \A h \in DOMAIN surface_ids : surface_ids[h] \in SurfaceIdWrapper
  /\ \A h \in DOMAIN destroyed_surface_ids : destroyed_surface_ids[h] \in SurfaceIdWrapper
  /\ next_id \in 1..(MaxId + 1)
  /\ panicked \in BOOLEAN
  /\ Len(out) <= 2

\* the event translation at rest: its state right after construction
SctkIdle ==
  /\ modifiers = 0
  /\ surface_ids = EmptyMap
  /\ destroyed_surface_ids = EmptyMap
  /\ next_id = 1
  /\ event = NoEvent
  /\ out = <<>>
  /\ panicked = FALSE
  /\ prev_modifiers = 0
  /\ last_mask = 0
  /\ registered = EmptyMap
  /\ retired = {}
  /\ focus_sent = {}

\* every component right after construction, before any call
Idle ==
  /\ SctkIdle /\ KeyIdle /\ TwinIdle /\ RegIdle /\ ClipIdle /\ ButtonIdle
  /\ SettingsIdle

(* --------------------------- physical_key ----------------------------- *)
\* the raw hardware codes a keyboard can report: the table's range, the
\* codes just above it and one far outside
RawCodes == 0..MaxRawCode \cup {9999}


\* a call physical_key(rawcode) with a code other than the last one
PhysicalKey(rawcode) ==
  /\ pk_code # Some(rawcode)
  /\ pk_code' = Some(rawcode)
  /\ pk_result' = Some(physical_key(rawcode))
  /\ pk_prev' = None
  /\ UNCHANGED non_key_vars

\* the same call once more
PhysicalKeyAgain ==
  /\ IsSome(pk_code)
  /\ pk_result' = Some(physical_key(Unwrap(pk_code)))
  /\ pk_prev' = pk_result
  /\ UNCHANGED pk_code
  /\ UNCHANGED non_key_vars

NextKey ==
  \/ \E rawcode \in RawCodes : PhysicalKey(rawcode)
  \/ PhysicalKeyAgain

SpecKey == Idle /\ [][NextKey]_vars

(* ----------------------- two runs side by side ------------------------ *)
\* Two event loops, each with its own Modifiers and registries, are handed
\* the same platform event; in between each registers and retires surfaces
\* on its own and the second also sees Modifiers events the first does not.


\* mutant: the second run's call also looks at what it has seen before
M_ToNativeB_ReadsHistory(e) ==
  LET r == to_native(e, modifiers_b, surface_ids_b, destroyed_surface_ids_b)
  IN  /\ out_b' = IF solo_b THEN <<>> ELSE r.out
      /\ modifiers_b' = r.modifiers
      /\ panicked_b' = r.panic
      /\ prev_modifiers_b' = modifiers_b

\* the second run's call of SctkEvent::to_native
ToNativeB(e) ==
  LET r == to_native(e, modifiers_b, surface_ids_b, destroyed_surface_ids_b)
  IN  /\ out_b' = r.out
      /\ modifiers_b' = r.modifiers
      /\ panicked_b' = r.panic
      /\ prev_modifiers_b' = modifiers_b

\* both runs translate the same platform event
TwinToNative(e) ==
  /\ ~panicked /\ ~panicked_b
  /\ event = NoEvent
  /\ LET r == to_native(e, modifiers, surface_ids, destroyed_surface_ids)
     IN  /\ out' = r.out
         /\ modifiers' = r.modifiers
         /\ panicked' = r.panic
  /\ event' = e
  /\ prev_modifiers' = modifiers
  /\ ToNativeB(e)
  /\ UNCHANGED <<surface_ids, destroyed_surface_ids, next_id, last_mask, registered,
                 retired, surface_ids_b, destroyed_surface_ids_b, next_id_b, solo_b>>
  /\ UNCHANGED non_twin_vars


\* both event loops drain the returned Vec
TwinConsume ==
  /\ ~panicked /\ ~panicked_b
  /\ event # NoEvent
  /\ event' = NoEvent
  /\ out' = <<>>
  /\ out_b' = <<>>
  /\ prev_modifiers' = modifiers
  /\ prev_modifiers_b' = modifiers_b
  /\ UNCHANGED <<modifiers, surface_ids, destroyed_surface_ids, next_id, panicked,
                 last_mask, registered, retired, modifiers_b, surface_ids_b,
                 destroyed_surface_ids_b, next_id_b, panicked_b, solo_b>>
  /\ UNCHANGED non_twin_vars

\* the second run alone translates a Modifiers event and drains the result
SoloModifiersB(new_mods) ==
  /\ ~panicked /\ ~panicked_b
  /\ event = NoEvent
  /\ LET e == [type |-> "KeyboardEvent",
               variant |-> [name |-> "Modifiers", mods |-> new_mods],
               seat_id |-> "seat0"]
         r == to_native(e, modifiers_b, surface_ids_b, destroyed_surface_ids_b)
     IN  /\ modifiers_b' = r.modifiers
         /\ prev_modifiers_b' = r.modifiers
  /\ solo_b' = TRUE
  /\ UNCHANGED <<surface_ids_b, destroyed_surface_ids_b, next_id_b, out_b, panicked_b>>
  /\ UNCHANGED <<sctk_vars, non_twin_vars>>

\* register and retire in the first run
RegisterA(h, identity) ==
  /\ ~panicked /\ ~panicked_b
  /\ event = NoEvent
  /\ h \notin DOMAIN surface_ids
  /\ next_id <= MaxId /\ identity.id = next_id
  /\ surface_ids' = register(surface_ids, h, identity)
  /\ next_id' = next_id + 1
  /\ UNCHANGED <<modifiers, destroyed_surface_ids, event, out, panicked,
                 prev_modifiers, last_mask, registered, retired>>
  /\ UNCHANGED <<twin_vars, non_twin_vars>>

RetireA(h) ==
  /\ ~panicked /\ ~panicked_b
  /\ event = NoEvent
  /\ h \in DOMAIN surface_ids
  /\ surface_ids' = retire_live(surface_ids, h)
  /\ destroyed_surface_ids' = retire_destroyed(surface_ids, destroyed_surface_ids, h)
  /\ UNCHANGED <<modifiers, next_id, event, out, panicked, prev_modifiers,
                 last_mask, registered, retired>>
  /\ UNCHANGED <<twin_vars, non_twin_vars>>

\* register and retire in the second run
RegisterB(h, identity) ==
  /\ ~panicked /\ ~panicked_b
  /\ event = NoEvent
  /\ h \notin DOMAIN surface_ids_b
  /\ next_id_b <= MaxId /\ identity.id = next_id_b
  /\ surface_ids_b' = register(surface_ids_b, h, identity)
  /\ next_id_b' = next_id_b + 1
  /\ solo_b' = TRUE
  /\ UNCHANGED <<modifiers_b, destroyed_surface_ids_b, out_b, panicked_b,
                 prev_modifiers_b>>
  /\ UNCHANGED <<sctk_vars, non_twin_vars>>

RetireB(h) ==
  /\ ~panicked /\ ~panicked_b
  /\ event = NoEvent
  /\ h \in DOMAIN surface_ids_b
  /\ surface_ids_b' = retire_live(surface_ids_b, h)
  /\ destroyed_surface_ids_b' =
       retire_destroyed(surface_ids_b, destroyed_surface_ids_b, h)
  /\ solo_b' = TRUE
  /\ UNCHANGED <<modifiers_b, next_id_b, out_b, panicked_b, prev_modifiers_b>>
  /\ UNCHANGED <<sctk_vars, non_twin_vars>>

\* the two runs register windows and layer surfaces on one handle
TwinHandles == {"wl_surface@1"}
TwinIdentities == {w \in SurfaceIdWrapper : w.kind \in {"Window", "LayerSurface"}}

NextTwin ==
  \/ \E h \in TwinHandles, identity \in TwinIdentities : RegisterA(h, identity)
  \/ \E h \in TwinHandles : RetireA(h)
  \/ \E h \in TwinHandles, identity \in TwinIdentities : RegisterB(h, identity)
  \/ \E h \in TwinHandles : RetireB(h)
  \/ \E new_mods \in Masks : SoloModifiersB(new_mods)
  \/ \E e \in SeatEvents : TwinToNative(e)
  \/ \E e \in PointerEvents : TwinToNative(e)
  \/ \E e \in KeyboardEvents : TwinToNative(e)
  \/ \E e \in WindowEvents : TwinToNative(e)
  \/ \E e \in LayerSurfaceEvents : TwinToNative(e)
  \/ \E e \in PopupEvents : TwinToNative(e)
  \/ \E e \in OutputEvents : TwinToNative(e)
  \/ \E e \in ScaleFactorChangedEvents : TwinToNative(e)
  \/ \E e \in DndOfferEvents : TwinToNative(e)
  \/ \E e \in DataSourceEvents : TwinToNative(e)
  \/ \E e \in SessionLockEvents : TwinToNative(e)
  \/ TwinConsume

SpecTwin == Idle /\ [][NextTwin]_vars

(* ------------------------ the registry alone -------------------------- *)
\* register and retire called in any order and with any arguments, each
\* register call remembered together with the registry it found.

\* register(h, identity): a handle not yet live gets the next unused id; a
\* call on a live handle may name any identity
RegisterCall(h, identity) ==
  /\ \/ h \in DOMAIN surface_ids
     \/ next_id <= MaxId /\ identity.id = next_id
  /\ surface_ids' = register(surface_ids, h, identity)
  /\ next_id' = IF h \in DOMAIN surface_ids THEN next_id ELSE next_id + 1
  /\ reg_call' = Some([h |-> h, identity |-> identity])
  /\ reg_before' = surface_ids
  /\ reg_repeat' = 0
  /\ UNCHANGED <<modifiers, destroyed_surface_ids, event, out, panicked,
                 prev_modifiers, last_mask, registered, retired>>
  /\ UNCHANGED non_reg_vars

\* the last register call, made once more with the same arguments
RegisterAgain ==
  /\ IsSome(reg_call)
  /\ reg_repeat < MaxRepeat
  /\ surface_ids' = register(surface_ids, Unwrap(reg_call).h, Unwrap(reg_call).identity)
  /\ reg_before' = surface_ids
  /\ reg_repeat' = reg_repeat + 1
  /\ UNCHANGED <<modifiers, destroyed_surface_ids, next_id, event, out, panicked,
                 prev_modifiers, last_mask, registered, retired, reg_call>>
  /\ UNCHANGED non_reg_vars

\* retire(h)
RetireCall(h) ==
  /\ h \in DOMAIN surface_ids
  /\ surface_ids' = retire_live(surface_ids, h)
  /\ destroyed_surface_ids' = retire_destroyed(surface_ids, destroyed_surface_ids, h)
  /\ reg_call' = None
  /\ reg_before' = EmptyMap
  /\ reg_repeat' = 0
  /\ UNCHANGED <<modifiers, next_id, event, out, panicked, prev_modifiers,
                 last_mask, registered, retired>>
  /\ UNCHANGED non_reg_vars

NextRegistry ==
  \/ \E h \in Handles, identity \in SurfaceIdWrapper : RegisterCall(h, identity)
  \/ RegisterAgain
  \/ \E h \in Handles : RetireCall(h)

SpecRegistry == Idle /\ [][NextRegistry]_vars

(* ----------------------------- Clipboard ------------------------------ *)
\* core::clipboard::Kind and the texts applications copy
Kinds == {"Standard", "Primary"}
Texts == {"a", "b", "c"}

\* Clipboard::connect and Clipboard::unconnected
connect == "Connected"
\* mutant: unconnected() builds a connected clipboard
M_unconnected_Connects == "Connected"

unconnected == "Unavailable"

\* smithay_clipboard: load() / load_primary() give the selection, or an
\* error when the selection is empty or the transfer fails
load(selection, transfer_ok) ==
  IF transfer_ok /\ IsSome(selection) THEN [ok |-> TRUE, value |-> selection]
  ELSE [ok |-> FALSE, value |-> None]
\* Result::ok
ok(r) == IF r.ok THEN r.value ELSE None

\* mutant: both kinds read the standard selection
M_read_AlwaysStandard(state, kind, standard, primary, transfer_ok) ==
  IF state = "Connected"
  THEN LET r == load(standard, transfer_ok)
       IN  [result |-> ok(r), backend |-> "load",
            load |-> IF r.ok THEN "ok" ELSE "err"]
  ELSE [result |-> None, backend |-> "none", load |-> "none"]

\* Clipboard::read
read(state, kind, standard, primary, transfer_ok) ==
  IF state = "Connected"
  THEN LET r == IF kind = "Standard" THEN load(standard, transfer_ok)
                ELSE load(primary, transfer_ok)
       IN  [result |-> ok(r),
            backend |-> IF kind = "Standard" THEN "load" ELSE "load_primary",
            load |-> IF r.ok THEN "ok" ELSE "err"]
  ELSE [result |-> None, backend |-> "none", load |-> "none"]

\* Clipboard::write
write(state, kind, contents, standard, primary) ==
  IF state = "Connected"
  THEN IF kind = "Standard"
       THEN [standard |-> Some(contents), primary |-> primary, backend |-> "store"]
       ELSE [standard |-> standard, primary |-> Some(contents),
             backend |-> "store_primary"]
  ELSE [standard |-> standard, primary |-> primary, backend |-> "none"]

\* the application builds its Clipboard, with or without a display
InitClipboard ==
  /\ clip_ctor \in {"connect", "unconnected"}
  /\ clip_state = IF clip_ctor = "connect" THEN connect ELSE unconnected
  /\ sel_standard = None
  /\ sel_primary = None
  /\ clip_op = None
  /\ clip_result = None
  /\ clip_backend = "none"
  /\ clip_load = "none"
  /\ SctkIdle /\ KeyIdle /\ TwinIdle /\ RegIdle /\ ButtonIdle /\ SettingsIdle

Read(kind) ==
  \E transfer_ok \in BOOLEAN :
    LET r == read(clip_state, kind, sel_standard, sel_primary, transfer_ok)
    IN  /\ clip_op' = Some([op |-> "read", kind |-> kind, contents |-> None])
        /\ clip_result' = r.result
        /\ clip_backend' = r.backend
        /\ clip_load' = r.load
        /\ UNCHANGED <<clip_ctor, clip_state, sel_standard, sel_primary>>
        /\ UNCHANGED non_clip_vars

Write(kind, contents) ==
  LET w == write(clip_state, kind, contents, sel_standard, sel_primary)
  IN  /\ clip_op' = Some([op |-> "write", kind |-> kind, contents |-> Some(contents)])
      /\ sel_standard' = w.standard
      /\ sel_primary' = w.primary
      /\ clip_backend' = w.backend
      /\ clip_result' = None
      /\ clip_load' = "none"
      /\ UNCHANGED <<clip_ctor, clip_state>>
      /\ UNCHANGED non_clip_vars

\* another application copies a text, or clears a selection
OtherApplication(kind, selection) ==
  /\ IF kind = "Standard"
     THEN sel_standard' = selection /\ UNCHANGED sel_primary
     ELSE sel_primary' = selection /\ UNCHANGED sel_standard
  /\ clip_op' = None
  /\ clip_result' = None
  /\ clip_backend' = "none"
  /\ clip_load' = "none"
  /\ UNCHANGED <<clip_ctor, clip_state>>
  /\ UNCHANGED non_clip_vars

NextClipboard ==
  \/ \E kind \in Kinds : Read(kind)
  \/ \E kind \in Kinds, contents \in Texts : Write(kind, contents)
  \/ \E kind \in Kinds, selection \in {None} \cup {Some(t) : t \in Texts} :
       OtherApplication(kind, selection)

SpecClipboard == InitClipboard /\ [][NextClipboard]_vars

(* ---------------------------- Button in use --------------------------- *)

\* the view is rebuilt: Button::new(..), with on_press(message),
\* on_press_maybe(..) or neither; the State stays in the widget tree
View(button) ==
  /\ btn_self' = button
  /\ btn_event' = NoButtonEvent
  /\ btn_cursor' = None
  /\ btn_content' = "none"
  /\ btn_status' = "none"
  /\ btn_shell' = <<>>
  /\ btn_op' = "view"
  /\ btn_prev' = btn_state
  /\ btn_prev_armed' = btn_armed
  /\ UNCHANGED <<btn_state, btn_armed>>
  /\ UNCHANGED non_btn_vars

\* the runtime hands the button one event
OnEvent(e, c, content_status) ==
  LET r == on_event(btn_self, btn_state, e, ButtonBounds, c, <<>>, content_status)
  IN  /\ btn_state' = r.state
      /\ btn_status' = r.status
      /\ btn_shell' = r.shell
      /\ btn_event' = e
      /\ btn_cursor' = c
      /\ btn_content' = content_status
      /\ btn_op' = "on_event"
      /\ btn_prev' = btn_state
      /\ btn_prev_armed' = btn_armed
      /\ btn_armed' =
           IF IsPress(e) /\ is_over(c, ButtonBounds) THEN TRUE
           ELSE IF content_status = "Captured" THEN btn_armed
           ELSE IF \/ IsPress(e) /\ IsSome(btn_self.on_press)
                   \/ IsRelease(e) /\ IsSome(btn_self.on_press)
                        /\ btn_state.is_pressed
                   \/ e = Touch("FingerLost")
                THEN FALSE
                ELSE btn_armed
      /\ UNCHANGED btn_self
      /\ UNCHANGED non_btn_vars

\* a focus operation reaches the button's State
Focus ==
  /\ btn_state' = Focusable_focus(btn_state)
  /\ btn_op' = "focus"
  /\ btn_prev' = btn_state
  /\ btn_prev_armed' = btn_armed
  /\ btn_armed' = FALSE
  /\ UNCHANGED <<btn_self, btn_event, btn_cursor, btn_content, btn_status, btn_shell>>
  /\ UNCHANGED non_btn_vars

Unfocus ==
  /\ btn_state' = Focusable_unfocus(btn_state)
  /\ btn_op' = "unfocus"
  /\ btn_prev' = btn_state
  /\ btn_prev_armed' = btn_armed
  /\ btn_armed' = FALSE
  /\ UNCHANGED <<btn_self, btn_event, btn_cursor, btn_content, btn_status, btn_shell>>
  /\ UNCHANGED non_btn_vars

NextButton ==
  \/ View(Button_new)
  \/ \E message \in Messages : View(Button_on_press(Button_new, message))
  \/ \E maybe \in {None} \cup {Some(m) : m \in Messages} :
       View(Button_on_press_maybe(Button_new, maybe))
  \/ \E e \in ButtonEvents, c \in Cursors, content_status \in {"Ignored", "Captured"} :
       OnEvent(e, c, content_status)
  \/ Focus
  \/ Unfocus

SpecButton == Idle /\ [][NextButton]_vars

(* -------------------- building layer shell settings ------------------- *)
\* the application assigns one public field of the settings
SetField(field, value) ==
  /\ layer_shell' = [layer_shell EXCEPT ![field] = Some(value)]
  /\ ls_op' = "set"
  /\ UNCHANGED non_ls_vars

\* keyboard_interactivity: Some(KeyboardInteractivity::default())
DefaultKeyboardInteractivity ==
  /\ layer_shell' = [layer_shell EXCEPT
                       !.keyboard_interactivity = Some(KeyboardInteractivity_default)]
  /\ ls_op' = "KeyboardInteractivity::default"
  /\ UNCHANGED non_ls_vars

NextSettings ==
  \/ \E field \in DOMAIN FieldValues : \E value \in FieldValues[field] :
       SetField(field, value)
  \/ DefaultKeyboardInteractivity

SpecSettings == Idle /\ [][NextSettings]_vars

(* ------------------- focus across register and retire ---------------- *)
\* one to_native call on a keyboard Enter or Leave; the history keeps the
\* window ids that have been told Focused and not yet Unfocused
FocusToNative(e) ==
  /\ ~panicked
  /\ event = NoEvent
  /\ LET r == to_native(e, modifiers, surface_ids, destroyed_surface_ids)
         named(name) == {r.out[i].id : i \in {j \in 1..Len(r.out) :
                            r.out[j].tag = "Window" /\ r.out[j].event = name}}
     IN  /\ out' = r.out
         /\ modifiers' = r.modifiers
         /\ panicked' = r.panic
         /\ focus_sent' = (focus_sent \cup named("Focused")) \ named("Unfocused")
  /\ event' = e
  /\ prev_modifiers' = modifiers
  /\ UNCHANGED <<surface_ids, destroyed_surface_ids, next_id, registered, retired,
                 last_mask>>
  /\ UNCHANGED non_focus_vars

NextFocus ==
  \/ \E h \in Handles, identity \in SurfaceIdWrapper : Register(h, identity)
  \/ \E h \in Handles : Retire(h)
  \/ \E e \in {k \in KeyboardEvents : k.variant.name \in {"Enter", "Leave"}} :
       FocusToNative(e)
  \/ Consume

SpecFocus == Idle /\ [][NextFocus]_vars

(* ======================= properties =================================== *)
\* the last call translated a keyboard event of one of the given variants
IsKeyboard(names) == event.type = "KeyboardEvent" /\ event.variant.name \in names
\* the last call translated a window / layer-surface / popup event variant
IsSurfaceEvent(type, name) == event.type = type /\ event.variant.name = name
\* the focus event name and seat event name of keyboard Enter and Leave
FocusName == IF event.variant.name = "Enter" THEN "Focused" ELSE "Unfocused"
SeatName == event.variant.name

\* C1: a keyboard Enter (Leave) on a handle whose live identity is Window(id)
\* returns exactly the portable Window(id) Focused (Unfocused) event followed
\* by the Seat Enter (Leave) event with the event's seat handle.
C1_WindowFocusThenSeat ==
  (/\ IsKeyboard({"Enter", "Leave"})
   /\ event.variant.surface \in DOMAIN surface_ids
   /\ surface_ids[event.variant.surface].kind = "Window")
  => out = << Window(surface_ids[event.variant.surface].id, FocusName),
              Seat(SeatName, event.seat_id) >>

C1_Witness ==
  /\ IsKeyboard({"Enter"})
  /\ event.seat_id = "seat1"
  /\ get(surface_ids, event.variant.surface) = Some([kind |-> "Window", id |-> 2])
  /\ Len(out) = 2

\* C2: a keyboard Enter (Leave) on a handle absent from the live registry, or
\* whose live identity is a drag icon, returns exactly the Seat Enter (Leave)
\* event, and the call does not fault.
C2_SeatOnlyWhenUnresolvedOrDragIcon ==
  (/\ IsKeyboard({"Enter", "Leave"})
   /\ \/ event.variant.surface \notin DOMAIN surface_ids
      \/ surface_ids[event.variant.surface].kind = "Dnd")
  => /\ out = << Seat(SeatName, event.seat_id) >>
     /\ ~panicked

C2_Witness ==
  /\ IsKeyboard({"Leave"})
  /\ \E h \in DOMAIN surface_ids : h # event.variant.surface
  /\ event.variant.surface \notin DOMAIN surface_ids
  /\ Len(out) = 1

\* C3: every key Press, Repeat or Release yields one key event whose modifiers
\* field is the mask of the most recent keyboard Modifiers event (the initial
\* mask when there was none), as converted by modifiers_to_native.
C3_KeyEventsCarryLatestMask ==
  IsKeyboard({"Press", "Repeat", "Release"})
  => /\ Len(out) = 1
     /\ out[1].tag = "Keyboard"
     /\ out[1].event = (IF event.variant.name = "Release" THEN "KeyReleased"
                        ELSE "KeyPressed")
     /\ out[1].modifiers = modifiers_to_native(last_mask)

C3_Witness ==
  /\ IsKeyboard({"Press"})
  /\ last_mask = 1
  /\ out[1].modifiers = {"SHIFT"}

\* C4: a handle inserted by register resolves in the live registry to the
\* identity it was registered with until it is retired; once retired it is
\* absent from the live registry and the destroyed registry resolves it to
\* that identity.
C4_RegisterThenRetire ==
  \A h \in DOMAIN registered :
    IF h \in retired
    THEN /\ get(surface_ids, h) = None
         /\ get(destroyed_surface_ids, h) = Some(registered[h])
    ELSE get(surface_ids, h) = Some(registered[h])

C4_Witness ==
  \E h \in retired, g \in DOMAIN registered :
    /\ g \notin retired
    /\ get(destroyed_surface_ids, h) = Some(registered[h])
    /\ get(surface_ids, g) = Some(registered[g])

\* C5: a window Close for a handle that is only in the destroyed registry
\* returns exactly Window(id) CloseRequested, id being the inner id of the
\* handle's destroyed-registry identity.
C5_CloseOfRetiredHandle ==
  (/\ IsSurfaceEvent("WindowEvent", "Close")
   /\ event.id \in DOMAIN destroyed_surface_ids
   /\ event.id \notin DOMAIN surface_ids)
  => out = << Window(inner(destroyed_surface_ids[event.id]), "CloseRequested") >>

C5_Witness ==
  /\ IsSurfaceEvent("WindowEvent", "Close")
  /\ event.id \notin DOMAIN surface_ids
  /\ get(destroyed_surface_ids, event.id) = Some([kind |-> "Window", id |-> 2])
  /\ out = << Window(2, "CloseRequested") >>

\* C6: window Close, layer-surface Done and popup Done resolve through the
\* destroyed registry only (nothing is returned for a handle that is not in
\* it, the destroyed identity's id otherwise); window Configure resolves
\* through the live registry only (nothing is returned for a handle that is
\* not in it, the live identity's id for a complete resize otherwise).
IsCloseOrDone ==
  \/ IsSurfaceEvent("WindowEvent", "Close")
  \/ IsSurfaceEvent("LayerSurfaceEvent", "Done")
  \/ IsSurfaceEvent("PopupEvent", "Done")

C6_CloseDoneDestroyedConfigureLive ==
  /\ IsCloseOrDone
     => IF event.id \in DOMAIN destroyed_surface_ids
        THEN /\ Len(out) = 1
             /\ out[1].id = inner(destroyed_surface_ids[event.id])
        ELSE out = <<>>
  /\ (IsSurfaceEvent("WindowEvent", "Configure") /\ ~panicked)
     => IF event.variant.surface \in DOMAIN surface_ids
           /\ event.variant.configure.is_resizing
        THEN /\ Len(out) = 1
             /\ out[1].id = inner(surface_ids[event.variant.surface])
        ELSE out = <<>>

C6_Witness ==
  /\ IsSurfaceEvent("PopupEvent", "Done")
  /\ event.id \in DOMAIN surface_ids
  /\ event.id \notin DOMAIN destroyed_surface_ids
  /\ out = <<>>

\* C7: while the backend keeps its order (register before any event on the
\* handle, retire before any close/done on it) no surface event is lost: a
\* keyboard Enter/Leave on a registered, not yet retired, non-drag-icon handle
\* yields a focus/unfocus event with the registered id ahead of the seat
\* event, and a Close/Done on a retired handle yields its close/done event
\* with the id the handle was registered with.
C7_NoEventLostInProtocolOrder ==
  /\ (/\ IsKeyboard({"Enter", "Leave"})
      /\ event.variant.surface \in DOMAIN registered
      /\ event.variant.surface \notin retired
      /\ registered[event.variant.surface].kind # "Dnd")
     => /\ Len(out) = 2
        /\ out[1].event = FocusName
        /\ out[1].id = registered[event.variant.surface].id
        /\ out[2] = Seat(SeatName, event.seat_id)
  /\ (IsCloseOrDone /\ event.id \in retired)
     => /\ Len(out) = 1
        /\ out[1].event = (IF event.type = "WindowEvent" THEN "CloseRequested"
                           ELSE "Done")
        /\ out[1].id = registered[event.id].id

C7_Witness ==
  /\ IsSurfaceEvent("LayerSurfaceEvent", "Done")
  /\ event.id \in retired
  /\ registered[event.id] = [kind |-> "LayerSurface", id |-> 2]
  /\ out = << Layer("Done", event.id, 2) >>

C9_OnlyModifiersEventMutates ==
  [][(event = NoEvent /\ event' # NoEvent)
     => /\ surface_ids' = surface_ids
        /\ destroyed_surface_ids' = destroyed_surface_ids
        /\ (modifiers' # modifiers
            => event'.type = "KeyboardEvent" /\ event'.variant.name = "Modifiers")]_vars

C9_Witness ==
  /\ IsKeyboard({"Repeat"})
  /\ modifiers = 1
  /\ prev_modifiers = 1
  /\ surface_ids # EmptyMap
  /\ destroyed_surface_ids # EmptyMap

\* C10: a keyboard Modifiers(new_mask) event returns exactly one
\* ModifiersChanged event carrying new_mask and leaves the tracked state equal
\* to new_mask, whatever the mask was before the call.
C10_ModifiersStoredThenReported ==
  IsKeyboard({"Modifiers"})
  => /\ out = << ModifiersChanged(modifiers_to_native(event.variant.mods)) >>
     /\ modifiers = event.variant.mods

C10_Witness ==
  /\ IsKeyboard({"Modifiers"})
  /\ prev_modifiers = 1
  /\ event.variant.mods = 0
  /\ modifiers = 0

\* C11: a keyboard Enter (Leave) on a handle whose live identity is Popup,
\* LayerSurface or SessionLock returns the platform-specific Focused
\* (Unfocused) event of that kind, with the surface handle and the identity's
\* inner id, followed by the seat event; a portable Window focus event is
\* returned only for a Window identity.
PlatformFocusEvent(kind, name, surface, id) ==
  CASE kind = "Popup" -> Popup(name, surface, id)
    [] kind = "LayerSurface" -> Layer(name, surface, id)
    [] kind = "SessionLock" -> SessionLockSurface(name, surface, id)

C11_PlatformFocusByKind ==
  IsKeyboard({"Enter", "Leave"})
  => /\ (/\ event.variant.surface \in DOMAIN surface_ids
         /\ surface_ids[event.variant.surface].kind
              \in {"Popup", "LayerSurface", "SessionLock"})
        => out = << PlatformFocusEvent(surface_ids[event.variant.surface].kind,
                                       FocusName, event.variant.surface,
                                       surface_ids[event.variant.surface].id),
                    Seat(SeatName, event.seat_id) >>
     /\ (\E i \in 1..Len(out) : out[i].tag = "Window")
        => /\ event.variant.surface \in DOMAIN surface_ids
           /\ surface_ids[event.variant.surface].kind = "Window"

C11_Witness ==
  /\ IsKeyboard({"Leave"})
  /\ get(surface_ids, event.variant.surface) = Some([kind |-> "Popup", id |-> 2])
  /\ out[1] = Popup("Unfocused", event.variant.surface, 2)

\* C12: a window Configure returns a Resized event exactly when it indicates
\* an active resize, both new dimensions are present and the handle is in the
\* live registry; the event carries the configure's width and height and the
\* handle's inner id.  A configure that is not resizing returns nothing.
ConfigureOf(e) == e.variant.configure
HasBothSizes(c) == IsSome(c.new_size[1]) /\ IsSome(c.new_size[2])

C12_ResizedOnlyForCompleteLiveResize ==
  IsSurfaceEvent("WindowEvent", "Configure")
  => LET c == ConfigureOf(event)
         h == event.variant.surface
     IN  /\ (c.is_resizing /\ HasBothSizes(c) /\ h \in DOMAIN surface_ids)
            => out = << Resized(inner(surface_ids[h]), Unwrap(c.new_size[1]),
                                Unwrap(c.new_size[2])) >>
         /\ out # <<>>
            => (c.is_resizing /\ HasBothSizes(c) /\ h \in DOMAIN surface_ids)
         /\ ~c.is_resizing => (out = <<>> /\ ~panicked)

C12_Witness ==
  /\ IsSurfaceEvent("WindowEvent", "Configure")
  /\ get(surface_ids, event.variant.surface) = Some([kind |-> "Window", id |-> 2])
  /\ out = << Resized(2, 800, 600) >>

\* C13: a window Configure that indicates an active resize but lacks the new
\* width or the new height never returns a Resized event (no dimension is
\* defaulted or substituted); when its handle resolves the call faults.
C13_IncompleteResizeFaults ==
  (/\ IsSurfaceEvent("WindowEvent", "Configure")
   /\ ConfigureOf(event).is_resizing
   /\ ~HasBothSizes(ConfigureOf(event)))
  => /\ out = <<>>
     /\ event.variant.surface \in DOMAIN surface_ids => panicked

C13_Witness ==
  /\ IsSurfaceEvent("WindowEvent", "Configure")
  /\ ConfigureOf(event).is_resizing
  /\ ConfigureOf(event).new_size = <<Some(800), None>>
  /\ event.variant.surface \in DOMAIN surface_ids
  /\ panicked

\* a resizing window Configure without both dimensions on a live handle: the
\* one input on which the call unwinds
IsIncompleteResizeOnLiveHandle ==
  /\ IsSurfaceEvent("WindowEvent", "Configure")
  /\ ConfigureOf(event).is_resizing
  /\ ~HasBothSizes(ConfigureOf(event))
  /\ event.variant.surface \in DOMAIN surface_ids

\* C14 as stated: for every platform event, under every modifier state and
\* registry content, the call returns a sequence (it never faults).
C14_Original_AlwaysReturns == event # NoEvent => ~panicked

\* C14 as amended: every variant of the taxonomy is handled and the call
\* returns a finite sequence of at most two events, except for a resizing
\* window Configure that lacks a dimension on a handle of the live registry,
\* where the call panics; no other input faults.
C14_TotalExceptIncompleteResize ==
  event # NoEvent
  => /\ panicked <=> IsIncompleteResizeOnLiveHandle
     /\ Len(out) \in 0..2
     /\ \A i \in 1..Len(out) : "tag" \in DOMAIN out[i]

C14_Witness ==
  /\ IsSurfaceEvent("PopupEvent", "Configure")
  /\ modifiers = 1
  /\ surface_ids # EmptyMap
  /\ destroyed_surface_ids # EmptyMap
  /\ out = <<>>
  /\ ~panicked

\* C15: every surface id carried by a returned event is the inner id stored
\* under the input event's surface handle in the live or in the destroyed
\* registry at the time of the call.
EventSurface(e) ==
  IF e.type = "KeyboardEvent"
     \/ (e.type = "WindowEvent" /\ e.variant.name = "Configure")
  THEN e.variant.surface ELSE e.id

CarriesSurfaceId(ev) == "id" \in DOMAIN ev /\ ev.tag # "Wayland.Output"

C15_EmittedIdsAreResolved ==
  \A i \in 1..Len(out) :
    CarriesSurfaceId(out[i])
    => LET h == EventSurface(event)
       IN  \/ h \in DOMAIN surface_ids /\ out[i].id = inner(surface_ids[h])
           \/ /\ h \in DOMAIN destroyed_surface_ids
              /\ out[i].id = inner(destroyed_surface_ids[h])

C15_Witness ==
  /\ IsSurfaceEvent("WindowEvent", "StateChanged")
  /\ get(surface_ids, event.id) = Some([kind |-> "Window", id |-> 2])
  /\ get(destroyed_surface_ids, event.id) = Some([kind |-> "Popup", id |-> 1])
  /\ Len(out) = 1
  /\ out[1].id = 2

\* C16: a surface lifecycle event (window Close, WmCapabilities, StateChanged,
\* resizing Configure; layer-surface Done; popup Done) whose handle is in
\* neither registry returns nothing, does not fault and leaves the modifier
\* state as it was.
IsLookupEvent ==
  \/ IsCloseOrDone
  \/ IsSurfaceEvent("WindowEvent", "WmCapabilities")
  \/ IsSurfaceEvent("WindowEvent", "StateChanged")
  \/ IsSurfaceEvent("WindowEvent", "Configure") /\ ConfigureOf(event).is_resizing

C16_LookupMissAbsorbed ==
  (/\ IsLookupEvent
   /\ EventSurface(event) \notin DOMAIN surface_ids
   /\ EventSurface(event) \notin DOMAIN destroyed_surface_ids)
  => /\ out = <<>>
     /\ ~panicked
     /\ modifiers = prev_modifiers

C16_Witness ==
  /\ IsSurfaceEvent("WindowEvent", "Configure")
  /\ ConfigureOf(event).is_resizing
  /\ ~HasBothSizes(ConfigureOf(event))
  /\ event.variant.surface \notin DOMAIN surface_ids
  /\ event.variant.surface \notin DOMAIN destroyed_surface_ids
  /\ surface_ids # EmptyMap
  /\ modifiers = 1
  /\ out = <<>>
  /\ ~panicked

\* C17: for key Press, Repeat and Release alike the logical key and the
\* location of the emitted event are looked up from the key event's keysym and
\* the physical key from its raw hardware code; Repeat(ke) yields the same
\* event as Press(ke).
C17_KeyFromKeysymForAllThree ==
  IsKeyboard({"Press", "Repeat", "Release"})
  => LET ke == event.variant.ke
         kl == keysym_to_vkey_location(ke.keysym, ke.utf8)
     IN  /\ Len(out) = 1
         /\ out[1].key = kl.key
         /\ out[1].location = kl.location
         /\ out[1].physical_key = physical_key(ke.raw_code)
         /\ IsKeyboard({"Repeat"}) => out = KeyboardPress(ke, modifiers)

C19_ExpansionBounds ==
  /\ Len(out) \in 0..2
  /\ Len(out) = 2 => IsKeyboard({"Enter", "Leave"})
  /\ IsKeyboard({"Enter", "Leave"}) => Len(out) >= 1

\* a Leave on a handle of neither registry still yields the seat event
C19_Witness ==
  /\ IsKeyboard({"Leave"})
  /\ event.variant.surface \notin DOMAIN surface_ids
  /\ event.variant.surface \notin DOMAIN destroyed_surface_ids
  /\ Len(out) = 1
  /\ out[1].tag = "Wayland.Seat"

IsRetaggedEvent ==
  event.type \in {"DndOffer", "DataSource", "SessionLocked", "SessionLockFinished",
                  "SessionLockSurfaceCreated", "SessionLockSurfaceConfigure",
                  "SessionUnlocked"}

\* C20 as stated: every DnD-offer, data-source and session-lock variant maps
\* to exactly one normalized event.
C20_Original_ExactlyOneEach == IsRetaggedEvent => Len(out) = 1

\* the normalized name of each DnD-offer / data-source / session-lock variant
RetaggedName(e) ==
  CASE e.type = "DndOffer" ->
         (IF e.event.name = "Data" THEN "DndData" ELSE e.event.name)
    [] e.type = "DataSource" ->
         (IF e.event.name = "DndCancelled" THEN "Cancelled" ELSE e.event.name)
    [] e.type = "SessionLocked" -> "Locked"
    [] e.type = "SessionLockFinished" -> "Finished"
    [] e.type = "SessionUnlocked" -> "Unlocked"

RetaggedTag(e) ==
  CASE e.type = "DndOffer" -> "Wayland.DndOffer"
    [] e.type = "DataSource" -> "Wayland.DataSource"
    [] OTHER -> "Wayland.SessionLock"

\* C20 as amended: every DnD-offer variant, every data-source variant and
\* SessionLocked, SessionLockFinished and SessionUnlocked map to exactly one
\* platform-specific event of the corresponding name; SessionLockSurfaceCreated
\* and SessionLockSurfaceConfigure map to no event; in every case the result
\* depends on the event alone and the modifier state is left as it was.
C20_RetaggedOrDropped ==
  IsRetaggedEvent
  => /\ ~panicked
     /\ modifiers = prev_modifiers
     /\ IF event.type \in {"SessionLockSurfaceCreated", "SessionLockSurfaceConfigure"}
        THEN out = <<>>
        ELSE /\ Len(out) = 1
             /\ out[1].tag = RetaggedTag(event)
             /\ out[1].event = RetaggedName(event)

C20_Witness ==
  /\ event.type = "DataSource"
  /\ event.event.name = "DndCancelled"
  /\ modifiers = 1
  /\ surface_ids # EmptyMap
  /\ out = <<DataSourceUnit("Cancelled")>>

\* the branches of to_native that produce no output
IsNoOpEvent ==
  \/ event.type \in {"SeatEvent", "ScaleFactorChanged"}
  \/ /\ event.type \in {"WindowEvent", "PopupEvent", "LayerSurfaceEvent"}
     /\ event.variant.name \in {"Created", "ScaleFactorChanged"}
  \/ IsSurfaceEvent("WindowEvent", "ConfigureBounds")

\* C21: SeatEvent (all variants), window / popup / layer-surface Created,
\* every scale-factor-changed variant and window ConfigureBounds return an
\* empty sequence, without fault and without changing the modifier state,
\* whatever the registries contain.
C21_NoOutputBranchesAreNoOps ==
  IsNoOpEvent
  => /\ out = <<>>
     /\ ~panicked
     /\ modifiers = prev_modifiers

\* a top-level scale change while a modifier is held and both registries
\* hold entries
C21_Witness ==
  /\ event.type = "ScaleFactorChanged"
  /\ modifiers = 1
  /\ surface_ids # EmptyMap
  /\ destroyed_surface_ids # EmptyMap
  /\ out = <<>>
  /\ ~panicked

IsPointerButton == event.type = "PointerEvent" /\ event.variant.kind.name \in {"Press", "Release"}

\* C22: a pointer Press or Release with a raw button code the button
\* translation does not recognise returns an empty sequence without fault; a
\* recognised code returns exactly one ButtonPressed (Press) or
\* ButtonReleased (Release) event with the translated button, regardless of
\* the registries.
C22_UnknownButtonDropped ==
  IsPointerButton
  => LET kind == event.variant.kind
         name == IF kind.name = "Press" THEN "ButtonPressed" ELSE "ButtonReleased"
     IN  /\ ~panicked
         /\ modifiers = prev_modifiers
         /\ kind.button = 272 => out = <<MouseButton(name, "Left")>>
         /\ kind.button = 273 => out = <<MouseButton(name, "Right")>>
         /\ kind.button = 274 => out = <<MouseButton(name, "Middle")>>
         /\ kind.button \notin {272, 273, 274} => out = <<>>

C22_Witness ==
  /\ IsPointerButton
  /\ event.variant.kind.name = "Press"
  /\ event.variant.kind.button = 999
  /\ surface_ids # EmptyMap
  /\ out = <<>>
  /\ ~panicked

\* C23: physical_key is a pure total function of the raw hardware code:
\* code 30 gives KeyA, code 1 gives Escape, every code without a table entry
\* (0, 84, the codes commented out in the table such as 95, 101, 112 and 195
\* to 204, and every code above 226 such as 9999) gives Unidentified, and a
\* repeated call with the same code gives the same result.
C23_PhysicalKeyTable ==
  IsSome(pk_code)
  => LET code == Unwrap(pk_code)
         key == Unwrap(pk_result)
     IN  /\ IsSome(pk_result)
         /\ code = 30 => key = "KeyA"
         /\ code = 1 => key = "Escape"
         /\ (code \in {0, 84, 95, 101, 112} \cup 195..204 \/ code > 226)
            => key = "Unidentified"
         /\ IsSome(pk_prev) => pk_prev = pk_result

\* the far-out code, asked twice
C23_Witness ==
  /\ pk_code = Some(9999)
  /\ pk_result = Some("Unidentified")
  /\ pk_prev = Some("Unidentified")

\* both runs entered the last call with equal modifier state and registries
SameContextAtCall ==
  /\ prev_modifiers = prev_modifiers_b
  /\ surface_ids = surface_ids_b
  /\ destroyed_surface_ids = destroyed_surface_ids_b

C25_RegisterRejectsOrRepeats ==
  IsSome(reg_call)
  => LET h == Unwrap(reg_call).h
         identity == Unwrap(reg_call).identity
     IN  /\ h \in DOMAIN surface_ids
         /\ (h \in DOMAIN reg_before /\ reg_before[h] # identity)
            => surface_ids = reg_before
         /\ (h \in DOMAIN reg_before /\ reg_before[h] = identity)
            => surface_ids = reg_before
         /\ reg_repeat > 0 => surface_ids = reg_before
         /\ (h \notin DOMAIN reg_before) => surface_ids[h] = identity

\* a Popup identity is offered for a handle that is live as Window(1)
C25_Witness ==
  /\ reg_call = Some([h |-> "wl_surface@1", identity |-> [kind |-> "Popup", id |-> 2]])
  /\ reg_before = insert(EmptyMap, "wl_surface@1", [kind |-> "Window", id |-> 1])
  /\ surface_ids = reg_before
  /\ reg_repeat = MaxRepeat

\* the last Clipboard call was a read / a write
LastRead == IsSome(clip_op) /\ Unwrap(clip_op).op = "read"
LastWrite == IsSome(clip_op) /\ Unwrap(clip_op).op = "write"

\* an unconnected Clipboard is Unavailable, its last call reached no backend
\* function and, if it was a read, returned absent
UnconnectedAnswers ==
  clip_ctor = "unconnected"
  => /\ clip_state = "Unavailable"
     /\ clip_backend = "none"
     /\ clip_load = "none"
     /\ LastRead => clip_result = None

\* an Unavailable Clipboard stays Unavailable, and its write leaves both
\* selections as they are
UnavailableWriteIsNoOp ==
  /\ clip_state = "Unavailable" => clip_state' = "Unavailable"
  /\ (clip_state = "Unavailable" /\ LastWrite')
     => (sel_standard' = sel_standard /\ sel_primary' = sel_primary)

\* C27: a Clipboard built with unconnected() is Unavailable permanently:
\* after any sequence of reads and writes of either kind the state is still
\* Unavailable, every read returns absent, every write is a no-op (no
\* backend function is called, no selection changes) and no call fails.
C27_UnconnectedStaysUnavailable ==
  []UnconnectedAnswers /\ [][UnavailableWriteIsNoOp]_vars

\* an unconnected clipboard is read while another application holds a
\* standard selection
C27_Witness ==
  /\ clip_ctor = "unconnected"
  /\ sel_standard = Some("a")
  /\ LastRead
  /\ Unwrap(clip_op).kind = "Standard"
  /\ clip_result = None

\* C28: read(kind) returns absent both when the clipboard is Unavailable and
\* when the backend load of that kind fails on a Connected clipboard (the
\* caller sees the same value and no error); read(Standard) loads only the
\* standard selection and read(Primary) only the primary selection.
C28_ReadAbsentOnUnavailableOrFailure ==
  LastRead
  => LET kind == Unwrap(clip_op).kind
         selection == IF kind = "Standard" THEN sel_standard ELSE sel_primary
     IN  /\ clip_state = "Unavailable" => clip_result = None
         /\ (clip_state = "Connected" /\ clip_load = "err") => clip_result = None
         /\ clip_state = "Connected"
            => /\ clip_backend = (IF kind = "Standard" THEN "load" ELSE "load_primary")
               /\ clip_load \in {"ok", "err"}
               /\ clip_load = "ok" => (clip_result = selection /\ IsSome(selection))

\* the primary selection holds a text, the standard one another, and the
\* load of the primary selection fails
C28_Witness ==
  /\ clip_state = "Connected"
  /\ LastRead
  /\ Unwrap(clip_op).kind = "Primary"
  /\ sel_primary = Some("a")
  /\ sel_standard = Some("b")
  /\ clip_load = "err"
  /\ clip_result = None

\* C29: a Button whose on_press is not set is disabled: for every sequence
\* of mouse, touch and keyboard events and every cursor position, update
\* publishes no message and never returns Captured (a Captured status of
\* on_event can only be the one of the button's content).
C29_DisabledWithoutOnPress ==
  (btn_self.on_press = None /\ btn_event # NoButtonEvent)
  => /\ btn_shell = <<>>
     /\ btn_content # "Captured" => btn_status = "Ignored"

\* the button was pressed while enabled, the view then dropped on_press, and
\* the left button is released over the button
C29_Witness ==
  /\ btn_self.on_press = None
  /\ btn_event = MouseButton("ButtonReleased", "Left")
  /\ is_over(btn_cursor, ButtonBounds)
  /\ btn_content = "Ignored"
  /\ btn_state.is_pressed
  /\ btn_shell = <<>>
  /\ btn_status = "Ignored"

\* C30: KeyboardInteractivity::None is the default keyboard interactivity for
\* newly created layer shells: the Default value of KeyboardInteractivity,
\* wherever the application asks for it, is None
C30_DefaultInteractivityIsNone ==
  ls_op = "KeyboardInteractivity::default"
  => layer_shell.keyboard_interactivity = Some("None")

\* the last operation was an on_event call that reached the button's own
\* update (the content did not capture the event), with on_press set or not
LastUpdate(set) ==
  /\ btn_op = "on_event"
  /\ btn_content # "Captured"
  /\ IsSome(btn_self.on_press) = set

\* C31: on a left-button release or finger lift with on_press set, a pressed
\* state is reset, update returns Captured and the message is published
\* exactly once iff the cursor is over the bounds; a state that is not
\* pressed is left unchanged, nothing is published and update returns Ignored.
C31_ReleaseOfPressedButton ==
  (LastUpdate(TRUE) /\ IsRelease(btn_event))
  => IF btn_prev.is_pressed
     THEN /\ btn_state = [is_focused |-> FALSE, is_pressed |-> FALSE,
                          is_active |-> FALSE]
          /\ btn_status = "Captured"
          /\ btn_shell = IF is_over(btn_cursor, ButtonBounds)
                         THEN <<Unwrap(btn_self.on_press)>> ELSE <<>>
     ELSE /\ btn_state = btn_prev
          /\ btn_status = "Ignored"
          /\ btn_shell = <<>>

\* a finger is lifted over the bounds of a pressed button: one message
C31_Witness ==
  /\ LastUpdate(TRUE)
  /\ btn_event = Touch("FingerLifted")
  /\ btn_prev.is_pressed
  /\ is_over(btn_cursor, ButtonBounds)
  /\ btn_shell = <<"ButtonPressed">>
  /\ btn_status = "Captured"
  /\ ~btn_state.is_focused

\* C32: on a left-button press or finger press with on_press set, a cursor
\* over the bounds makes the state focused, pressed and active and update
\* returns Captured; a cursor outside the bounds resets the state (focus is
\* lost) and update returns Ignored; a press never publishes a message.
C32_PressCapturesOverBounds ==
  (LastUpdate(TRUE) /\ IsPress(btn_event))
  => /\ btn_shell = <<>>
     /\ IF is_over(btn_cursor, ButtonBounds)
        THEN /\ btn_state = [is_focused |-> TRUE, is_pressed |-> TRUE,
                             is_active |-> TRUE]
             /\ btn_status = "Captured"
        ELSE /\ btn_state = [is_focused |-> FALSE, is_pressed |-> FALSE,
                             is_active |-> FALSE]
             /\ btn_status = "Ignored"

\* a focused button loses its focus to a left press outside its bounds
C32_Witness ==
  /\ LastUpdate(TRUE)
  /\ btn_event = MouseButton("ButtonPressed", "Left")
  /\ IsSome(btn_cursor)
  /\ ~is_over(btn_cursor, ButtonBounds)
  /\ btn_prev.is_focused
  /\ ~btn_state.is_focused
  /\ btn_status = "Ignored"

\* C33: on KeyPressed with the Enter key, a focused button with on_press set
\* publishes exactly one message, its state becomes pressed and active and
\* update returns Ignored; a button that is not focused or has no on_press
\* publishes nothing and keeps its state. Any other key leaves the state
\* unchanged and publishes nothing.
C33_EnterActivatesFocusedButton ==
  (/\ btn_op = "on_event"
   /\ btn_content # "Captured"
   /\ btn_event.tag = "Keyboard"
   /\ btn_event.event = "KeyPressed")
  => IF /\ btn_event.key = Named("Enter")
        /\ btn_prev.is_focused
        /\ IsSome(btn_self.on_press)
     THEN /\ btn_shell = <<Unwrap(btn_self.on_press)>>
          /\ btn_state.is_pressed
          /\ btn_state.is_active
          /\ btn_status = "Ignored"
     ELSE /\ btn_shell = <<>>
          /\ btn_state = btn_prev

\* Enter reaches a button that is focused but not pressed
C33_Witness ==
  /\ LastUpdate(TRUE)
  /\ btn_event.tag = "Keyboard"
  /\ btn_event.event = "KeyPressed"
  /\ btn_event.key = Named("Enter")
  /\ btn_prev = [is_focused |-> TRUE, is_pressed |-> FALSE, is_active |-> FALSE]
  /\ btn_shell = <<"ButtonPressed">>
  /\ btn_state.is_pressed
  /\ btn_status = "Ignored"

\* C34: when the button's content captures an event, Button::on_event returns
\* Captured without running the button's own update: the State is unchanged
\* and the button publishes no message for that event.
C34_ContentCaptureSkipsUpdate ==
  (btn_op = "on_event" /\ btn_content = "Captured")
  => /\ btn_status = "Captured"
     /\ btn_state = btn_prev
     /\ btn_shell = <<>>

\* the content captures the release, over the bounds, of a pressed button
\* whose on_press is set
C34_Witness ==
  /\ btn_op = "on_event"
  /\ btn_content = "Captured"
  /\ IsSome(btn_self.on_press)
  /\ btn_event = MouseButton("ButtonReleased", "Left")
  /\ is_over(btn_cursor, ButtonBounds)
  /\ btn_prev.is_pressed
  /\ btn_state.is_pressed
  /\ btn_status = "Captured"

\* C35: in every State reachable from State::new() through update events and
\* Focusable focus/unfocus operations, is_pressed equals is_active and
\* is_pressed implies is_focused; Focusable::focus ends in focused-only and
\* Focusable::unfocus in all-false.
C35_StateShape ==
  /\ btn_state.is_pressed = btn_state.is_active
  /\ btn_state.is_pressed => btn_state.is_focused
  /\ btn_op = "focus"
       => btn_state = [is_focused |-> TRUE, is_pressed |-> FALSE,
                       is_active |-> FALSE]
  /\ btn_op = "unfocus"
       => btn_state = [is_focused |-> FALSE, is_pressed |-> FALSE,
                       is_active |-> FALSE]

\* a focus operation reaches a button that is held pressed
C35_Witness ==
  /\ btn_op = "focus"
  /\ btn_prev = [is_focused |-> TRUE, is_pressed |-> TRUE, is_active |-> TRUE]
  /\ btn_state = [is_focused |-> TRUE, is_pressed |-> FALSE, is_active |-> FALSE]

\* C36: a left-button release or finger lift publishes the on_press message
\* only if a left press or finger press over the button bounds happened after
\* the state was last reset; no other event (in particular no key press) can
\* arm a later pointer release to publish.
C36_ReleasePublishesOnlyAfterPointerPress ==
  (btn_op = "on_event" /\ IsRelease(btn_event) /\ btn_shell # <<>>)
  => btn_prev_armed

\* the handle of the last keyboard Enter/Leave is only in the destroyed
\* registry: it has been retired and not registered again
OnRetiredHandle ==
  /\ IsKeyboard({"Enter", "Leave"})
  /\ event.variant.surface \notin DOMAIN surface_ids
  /\ event.variant.surface \in DOMAIN destroyed_surface_ids

\* a keyboard Enter/Leave on a retired handle returns the seat event alone
SeatEventOnlyForRetired ==
  OnRetiredHandle => out = << Seat(SeatName, event.seat_id) >>

\* a step that translates a keyboard Leave on a retired window handle whose
\* id has been told Focused leaves that id without its Unfocused
FocusedStaysWithoutUnfocused ==
  (/\ event = NoEvent
   /\ OnRetiredHandle'
   /\ event'.variant.name = "Leave"
   /\ destroyed_surface_ids[event'.variant.surface].kind = "Window"
   /\ destroyed_surface_ids[event'.variant.surface].id \in focus_sent)
  => /\ destroyed_surface_ids[event'.variant.surface].id \in focus_sent'
     /\ \A i \in 1..Len(out') : out'[i].tag # "Window"

\* C37: focus and unfocus events are resolved through the live registry only:
\* a keyboard Enter or Leave on a retired handle (present only in the
\* destroyed registry) yields exactly the seat event, so when retire(h)
\* happens between a keyboard Enter and the following keyboard Leave on a
\* window handle h, the Focused(id) of the Enter gets no Unfocused(id) from
\* that Leave.
C37_FocusResolvedThroughLiveRegistryOnly ==
  []SeatEventOnlyForRetired /\ [][FocusedStaysWithoutUnfocused]_vars

\* Enter on a live window handle, retire, then Leave on the same handle: the
\* id is still marked focused after the Leave returned the seat event alone
C37_Witness ==
  /\ OnRetiredHandle
  /\ event.variant.name = "Leave"
  /\ event.variant.surface \in retired
  /\ destroyed_surface_ids[event.variant.surface].kind = "Window"
  /\ destroyed_surface_ids[event.variant.surface].id \in focus_sent
  /\ out = << Seat("Leave", event.seat_id) >>

\* C38: every portable or platform-specific window event that to_native emits
\* (Focused, Unfocused, CloseRequested, Resized, WmCapabilities, State)
\* carries an id whose registry identity is of kind Window, whatever identity
\* kind the registries hold for the event's handle.
C38_WindowEventsCarryWindowIds ==
  \A i \in 1..Len(out) :
    out[i].tag \in {"Window", "Wayland.Window"}
    => LET h == EventSurface(event)
           w == [kind |-> "Window", id |-> out[i].id]
       IN  \/ get(surface_ids, h) = Some(w)
           \/ get(destroyed_surface_ids, h) = Some(w)

\* C39: a window Configure that indicates an active resize on a handle absent
\* from the live registry yields an empty sequence without fault, whether or
\* not the new width and height are present (the handle may still be in the
\* destroyed registry): the dimensions are inspected only after the handle
\* has resolved.
C39_ResizeOnHandleNotLive ==
  (/\ IsSurfaceEvent("WindowEvent", "Configure")
   /\ ConfigureOf(event).is_resizing
   /\ event.variant.surface \notin DOMAIN surface_ids)
  => /\ out = <<>>
     /\ ~panicked
     /\ modifiers = prev_modifiers

\* a resize without its width, on a retired window handle
C39_Witness ==
  /\ IsSurfaceEvent("WindowEvent", "Configure")
  /\ ConfigureOf(event).is_resizing
  /\ ConfigureOf(event).new_size = <<None, Some(600)>>
  /\ event.variant.surface \notin DOMAIN surface_ids
  /\ get(destroyed_surface_ids, event.variant.surface)
       = Some([kind |-> "Window", id |-> 1])
  /\ out = <<>>
  /\ ~panicked
====
